---- MODULE Spec2Model ----
(***************************************************************************)
(* go-fi fault injection: the decision engine of package faultinject       *)
(* (injector.go): the rule store (limits, precise, counters) behind the    *)
(* mutex mu, the environment gate isProductionEnvironment, and the entry   *)
(* points Inject, InjectWithContext, SetFailures, SetNthFailure, Reset and *)
(* Status, called by goroutines.                                           *)
(*                                                                         *)
(* A call is modelled by the steps a concurrent observer can tell apart:   *)
(* the part before mu.Lock() (context checks and the environment gate,     *)
(* which read no state guarded by mu), the critical section under mu, and  *)
(* the return to the caller.                                               *)
(***************************************************************************)
EXTENDS Integers, Sequences, FiniteSets, TLC

\* ------------------------------------------------------------------ bounds
NumProcs == 2       \* goroutines that call the package
MaxArg   == 2       \* largest count / nth handed to SetFailures, SetNthFailure
MaxCount == 3       \* an evaluation starts only while the key's counter is below this

Procs  == 1..NumProcs
Keys   == {"k1", "k2"}
Args   == (0 - 1)..MaxArg

\* ----------------------------------------------------------------- strings
\* Environment names are sequences of characters, so that strings.ToLower is
\* computed and not assumed.
UpperChars == <<"A","B","C","D","E","F","G","H","I","J","K","L","M",
                "N","O","P","Q","R","S","T","U","V","W","X","Y","Z">>
LowerChars == <<"a","b","c","d","e","f","g","h","i","j","k","l","m",
                "n","o","p","q","r","s","t","u","v","w","x","y","z">>

LowerChar(c) ==
    IF \E i \in DOMAIN UpperChars : UpperChars[i] = c
    THEN LowerChars[CHOOSE i \in DOMAIN UpperChars : UpperChars[i] = c]
    ELSE c

ToLower(s) == [i \in DOMAIN s |-> LowerChar(s[i])]

sEmpty       == << >>
sDevelopment == <<"d","e","v","e","l","o","p","m","e","n","t">>
sStaging     == <<"s","t","a","g","i","n","g">>
sTesting     == <<"t","e","s","t","i","n","g">>
sProduction  == <<"p","r","o","d","u","c","t","i","o","n">>
sProd        == <<"p","r","o","d">>
sProdMixed   == <<"P","r","o","d">>
sQa          == <<"q","a">>
sDevMixed    == <<"D","e","v","e","l","o","p","m","e","n","t">>

DefaultAllowedEnvironments    == <<sDevelopment, sStaging, sTesting>>
DefaultProductionEnvironments == <<sProduction, sProd>>

EnvVarNames == {"ENVIRONMENT", "ENV", "GO_ENV"}

\* -------------------------------------------------------------------- maps
\* A Go map[string]int is a function whose domain is the set of present keys.
EmptyMap      == [k \in {} |-> 0]
Has(m, k)     == k \in DOMAIN m
Get(m, k)     == IF k \in DOMAIN m THEN m[k] ELSE 0
Put(m, k, v)  == [x \in (DOMAIN m) \cup {k} |-> IF x = k THEN v ELSE m[x]]
Delete(m, k)  == [x \in (DOMAIN m) \ {k} |-> m[x]]

Max(a, b) == IF a >= b THEN a ELSE b
Min(a, b) == IF a <= b THEN a ELSE b

\* ---------------------------------------------------------------- contexts
\* A context.Context as InjectWithContext sees it: nil or not, ctx.Err()
\* already set or not, the booleans stored under "faultinject:"+key, and the
\* names under which a value of another type is stored (for those the type
\* assertion .(bool) fails).
Namespaced(key) == <<"faultinject:", key>>

Ctx(isNil, err, vals) == [isNil |-> isNil, err |-> err, vals |-> vals, other |-> {}]

NoCtx          == Ctx(TRUE, FALSE, EmptyMap)
Background     == Ctx(FALSE, FALSE, EmptyMap)
Cancelled      == Ctx(FALSE, TRUE, EmptyMap)
WithValue(c, name, v) == Ctx(c.isNil, c.err, Put(c.vals, name, v))
WithNonBool(c, name)  == [c EXCEPT !.vals = Delete(@, name), !.other = @ \cup {name}]

\* ------------------------------------------------------------------- state
VARIABLES
    mu,                      \* holder of the mutex mu, 0 when free
    limits,                  \* map key -> first-N limit
    precise,                 \* map key -> nth
    counters,                \* map key -> attempts so far
    allowedEnvironments,     \* list of names
    productionEnvironments,  \* list of names
    environ,                 \* the process environment: variable -> value
    pc,                      \* per goroutine: "idle", "lock", "done"
    call,                    \* per goroutine: the call in progress
    ret,                     \* per goroutine: the value its call returned
    cfg,                     \* history: per key, the last configuration applied
    hist,                    \* history: per key, the evaluations since then
    cleared,                 \* history: keys whose rule the last Reset removed
    prev,                    \* history: for the keys it is kept for, the
                             \* configuration that the last one replaced
    load,                    \* per goroutine in LoadSpec: the entries of the
                             \* document not applied yet, and the one in hand
    sdk                      \* package sdk: its limits and counters, the
                             \* FI_FAILURE_COUNTS its init read, and the call
                             \* the program has made to it

store == <<limits, precise, counters>>
envs  == <<allowedEnvironments, productionEnvironments, environ>>
procs == <<pc, call, ret>>
ghost == <<cfg, hist, cleared, prev>>
vars  == <<mu, limits, precise, counters, allowedEnvironments,
           productionEnvironments, environ, pc, call, ret, cfg, hist, cleared,
           prev, load, sdk>>

NoCall == [op |-> "none", key |-> "", arg |-> 0, ctx |-> NoCtx]
NoCfg  == [kind |-> "none", val |-> 0]
NoEntry == [op |-> "none", key |-> "", arg |-> 0]
NoLoad == [failures |-> EmptyMap, precise |-> EmptyMap, cur |-> NoEntry]

\* Package sdk in a process started without FI_FAILURE_COUNTS: init leaves
\* both maps empty; the program has no call to it in hand.
SdkUnset == [raw |-> << >>, limits |-> EmptyMap, counters |-> EmptyMap,
             at |-> "idle", ret |-> "none"]

Init ==
    /\ mu = 0
    /\ limits = EmptyMap
    /\ precise = EmptyMap
    /\ counters = EmptyMap
    /\ allowedEnvironments = DefaultAllowedEnvironments
    /\ productionEnvironments = DefaultProductionEnvironments
    /\ environ = [n \in EnvVarNames |-> sEmpty]
    /\ pc = [p \in Procs |-> "idle"]
    /\ call = [p \in Procs |-> NoCall]
    /\ ret = [p \in Procs |-> "none"]
    /\ cfg = [k \in Keys |-> NoCfg]
    /\ hist = [k \in Keys |-> << >>]
    /\ cleared = {}
    /\ prev = EmptyMap
    /\ load = [p \in Procs |-> NoLoad]
    /\ sdk = SdkUnset

\* ------------------------------------------------------- environment policy
Getenv(name) == environ[name]

\* Mutant: ENV is looked at before ENVIRONMENT.
ResolvedEnv_EnvBeforeEnvironment ==
    LET e1 == ToLower(Getenv("ENV"))
        e2 == ToLower(Getenv("ENVIRONMENT"))
        e3 == ToLower(Getenv("GO_ENV"))
    IN  IF e1 # sEmpty THEN e1 ELSE IF e2 # sEmpty THEN e2 ELSE e3

ResolvedEnv ==
    LET e1 == ToLower(Getenv("ENVIRONMENT"))
        e2 == ToLower(Getenv("ENV"))
        e3 == ToLower(Getenv("GO_ENV"))
    IN  IF e1 # sEmpty THEN e1 ELSE IF e2 # sEmpty THEN e2 ELSE e3

Contains(list, s) == \E i \in DOMAIN list : list[i] = s

\* Mutant: the allowed list is looked at before the production list.
isProductionEnvironment_AllowedFirst ==
    IF Contains(allowedEnvironments, ResolvedEnv) THEN FALSE
    ELSE TRUE

isProductionEnvironment ==
    IF Contains(productionEnvironments, ResolvedEnv) THEN TRUE
    ELSE IF Contains(allowedEnvironments, ResolvedEnv) THEN FALSE
    ELSE TRUE

\* os.Setenv(name, val), by the process or its test harness.
Setenv(name, val) ==
    /\ environ[name] # val
    /\ environ' = [environ EXCEPT ![name] = val]
    /\ UNCHANGED <<sdk, mu, load, store, allowedEnvironments, productionEnvironments,
                   procs, ghost>>

\* ------------------------------------------------------------- rule store
\* Mutant: the counter runs downwards.
Attempt_CountsDown(key) == Get(counters, key) - 1

\* The attempt number Inject gives the call: counters[key] + 1.
Attempt(key) == Get(counters, key) + 1

\* Mutant: the rule is compared with the count before the bump.
Verdict_BeforeBump(key, cnt) ==
    IF Has(precise, key) /\ precise[key] >= 0 THEN cnt - 1 = precise[key]
    ELSE IF Has(limits, key) /\ limits[key] >= 0 THEN cnt - 1 <= limits[key]
    ELSE FALSE

\* Mutant: the first-N comparison is strict.
Verdict_StrictLimit(key, cnt) ==
    IF Has(precise, key) /\ precise[key] > 0 THEN cnt = precise[key]
    ELSE IF Has(limits, key) /\ limits[key] > 0 THEN cnt < limits[key]
    ELSE FALSE

\* Inject's verdict for attempt cnt of key.
Verdict(key, cnt) ==
    IF Has(precise, key) /\ precise[key] > 0 THEN cnt = precise[key]
    ELSE IF Has(limits, key) /\ limits[key] > 0 THEN cnt <= limits[key]
    ELSE FALSE

\* Mutant: Status lists the Nth-only rules too.
StatusOut_IncludesPrecise ==
    [k \in DOMAIN limits \cup DOMAIN precise |->
        Max(0, (IF Has(limits, k) THEN limits[k] ELSE precise[k]) - Get(counters, k))]

\* Mutant: Status reports limit - counter as it comes.
StatusOut_NoClamp == [k \in DOMAIN limits |-> limits[k] - Get(counters, k)]

\* Mutant: Status leaves out the keys with nothing remaining.
StatusOut_OmitsExhausted ==
    [k \in {j \in DOMAIN limits : limits[j] - Get(counters, j) > 0} |->
        limits[k] - Get(counters, k)]

\* The value of Status().
StatusOut == [k \in DOMAIN limits |-> Max(0, limits[k] - Get(counters, k))]

\* Mutant: SetFailures puts every counter at zero.
SetFailuresStore_ResetsAllCounters(key, count) ==
    /\ limits' = Put(limits, key, count)
    /\ precise' = Delete(precise, key)
    /\ counters' = [j \in DOMAIN counters \cup {key} |-> 0]

\* Mutant: SetFailures leaves the key's Nth-only rule in place.
SetFailuresStore_KeepsPrecise(key, count) ==
    /\ limits' = Put(limits, key, count)
    /\ precise' = precise
    /\ counters' = Put(counters, key, 0)

\* The store after SetFailures(key, count) has run under the lock.
SetFailuresStore(key, count) ==
    /\ limits' = Put(limits, key, count)
    /\ precise' = Delete(precise, key)
    /\ counters' = Put(counters, key, 0)

\* Mutant: SetNthFailure leaves the key's counter as it was.
SetNthFailureStore_KeepsCounter(key, nth) ==
    /\ precise' = Put(precise, key, nth)
    /\ limits' = Delete(limits, key)
    /\ counters' = counters

\* Mutant: SetNthFailure leaves the key's first-N rule in place.
SetNthFailureStore_KeepsLimit(key, nth) ==
    /\ precise' = Put(precise, key, nth)
    /\ limits' = limits
    /\ counters' = Put(counters, key, 0)

\* The store after SetNthFailure(key, nth) has run under the lock.
SetNthFailureStore(key, nth) ==
    /\ precise' = Put(precise, key, nth)
    /\ limits' = Delete(limits, key)
    /\ counters' = Put(counters, key, 0)

\* Mutant: Reset forgets the Nth-only rules.
ResetStore_KeepsPrecise ==
    /\ limits' = EmptyMap
    /\ precise' = precise
    /\ counters' = EmptyMap

\* The store after Reset().
ResetStore ==
    /\ limits' = EmptyMap
    /\ precise' = EmptyMap
    /\ counters' = EmptyMap

\* ------------------------------------------------------------ entry points
\* The entry points that ask for a decision: those that call Inject(key) first
\* and those that call InjectWithContext(ctx, key) first.
PlainOps == {"Inject", "InjectWithFn", "InjectWithError", "InjectWithErrorf",
             "HTTPMiddlewareWithResponse", "WithFaultInjection"}
CtxOps   == {"InjectWithContext", "InjectWithFnContext", "InjectWithContextError",
             "WithFaultInjectionContext"}
DecisionOps == PlainOps \cup CtxOps

\* Mutant: fn is invoked whatever the decision was.
InjectWithFn_CallsFnAnyway(d) == "fn()"

\* What each adapter makes of the decision d it got.
InjectWithFn(d)               == IF d THEN "fn()" ELSE "nil"
InjectWithFnContext(d)        == IF d THEN "fn()" ELSE "nil"
InjectWithError(d)            == IF d THEN "injected failure: message" ELSE "nil"
InjectWithErrorf(d)           == IF d THEN "injected failure: message" ELSE "nil"
InjectWithContextError(d)     == IF d THEN "injected failure: message" ELSE "nil"
\* Mutant: the return after responseFn is missing.
HTTPMiddlewareWithResponse_FallsThrough(d) ==
    IF d THEN "responseFn, next.ServeHTTP" ELSE "next.ServeHTTP"

HTTPMiddlewareWithResponse(d) == IF d THEN "responseFn" ELSE "next.ServeHTTP"
WithFaultInjection(d)         == IF d THEN "injected failure" ELSE "fn(input)"
WithFaultInjectionContext(d)  == IF d THEN "injected failure" ELSE "fn(input)"

Outcome(op, d) ==
    CASE op = "InjectWithFn"               -> InjectWithFn(d)
      [] op = "InjectWithFnContext"        -> InjectWithFnContext(d)
      [] op = "InjectWithError"            -> InjectWithError(d)
      [] op = "InjectWithErrorf"           -> InjectWithErrorf(d)
      [] op = "InjectWithContextError"     -> InjectWithContextError(d)
      [] op = "HTTPMiddlewareWithResponse" -> HTTPMiddlewareWithResponse(d)
      [] op = "WithFaultInjection"         -> WithFaultInjection(d)
      [] op = "WithFaultInjectionContext"  -> WithFaultInjectionContext(d)
      [] OTHER                             -> d

\* ------------------------------------------------------------------ calls
Enter(p, c)  == /\ pc[p] = "idle"
                /\ call' = [call EXCEPT ![p] = c]
Return(p, v) == /\ pc' = [pc EXCEPT ![p] = "done"]
                /\ ret' = [ret EXCEPT ![p] = v]
Wait(p)      == /\ pc' = [pc EXCEPT ![p] = "lock"]
                /\ UNCHANGED ret

\* Evaluations of key that have passed the gate and wait for mu.
InFlight(key) ==
    Cardinality({q \in Procs : /\ pc[q] = "lock"
                               /\ call[q].op \in DecisionOps
                               /\ call[q].key = key})

MayEvaluate(key) == Get(counters, key) + InFlight(key) < MaxCount

\* Mutant: Inject goes for the lock without asking the environment.
InjectGate_NoGate(p) == MayEvaluate(call'[p].key) /\ Wait(p)

\* Inject(key) up to mu.Lock(): the production gate.
InjectGate(p) ==
    IF isProductionEnvironment
    THEN Return(p, Outcome(call'[p].op, FALSE))
    ELSE MayEvaluate(call'[p].key) /\ Wait(p)

\* op(key), for an entry point that starts with Inject(key): the call and
\* the gate.
InjectEnter(p, op, key) ==
    /\ op \in PlainOps
    /\ Enter(p, [op |-> op, key |-> key, arg |-> 0, ctx |-> NoCtx])
    /\ InjectGate(p)
    /\ UNCHANGED <<mu, load, store, envs, sdk, ghost>>

\* Mutant: only the attempts that inject are counted.
Evaluate_CountsInjectedOnly(p, key, cnt) ==
    /\ counters' = IF Verdict(key, cnt) THEN Put(counters, key, cnt) ELSE counters
    /\ Return(p, Outcome(call[p].op, Verdict(key, cnt)))
    /\ hist' = [hist EXCEPT ![key] =
                   Append(@, [attempt |-> cnt, ret |-> Verdict(key, cnt), proc |-> p])]

\* Attempt cnt of key is evaluated for p: the counter is stored, the verdict
\* returned through the entry point, the evaluation recorded.
Evaluate(p, key, cnt) ==
    /\ counters' = Put(counters, key, cnt)
    /\ Return(p, Outcome(call[p].op, Verdict(key, cnt)))
    /\ hist' = [hist EXCEPT ![key] =
                   Append(@, [attempt |-> cnt, ret |-> Verdict(key, cnt), proc |-> p])]

\* Mutant: the counter is read before mu is taken, so the attempt number may
\* be one an earlier call already used.
InjectLocked_StaleRead(p) ==
    /\ pc[p] = "lock"
    /\ call[p].op \in DecisionOps
    /\ mu = 0
    /\ \E seen \in 0..Get(counters, call[p].key) : Evaluate(p, call[p].key, seen + 1)
    /\ UNCHANGED <<mu, load, limits, precise, envs, sdk, call, cfg, cleared, prev>>

\* Inject(key) under mu: bump the counter, evaluate the rule, unlock, return.
InjectLocked(p) ==
    /\ pc[p] = "lock"
    /\ call[p].op \in DecisionOps
    /\ mu = 0
    /\ Evaluate(p, call[p].key, Attempt(call[p].key))
    /\ UNCHANGED <<mu, load, limits, precise, envs, sdk, call, cfg, cleared, prev>>

\* Mutant: the value stored in the context is not looked at.
ContextDecision_NoOverride(ctx, key) ==
    IF ~ctx.isNil /\ ctx.err THEN "cancelled" ELSE "inject"

\* Mutant: ctx.Err() is not looked at.
ContextDecision_IgnoresErr(ctx, key) ==
    IF /\ ~ctx.isNil
       /\ Has(ctx.vals, Namespaced(key))
       /\ ctx.vals[Namespaced(key)] \in BOOLEAN
    THEN "override"
    ELSE "inject"

\* Mutant: the stored value is looked at before ctx.Err().
ContextDecision_OverrideFirst(ctx, key) ==
    IF /\ ~ctx.isNil
       /\ Has(ctx.vals, Namespaced(key))
       /\ ctx.vals[Namespaced(key)] \in BOOLEAN
    THEN "override"
    ELSE IF ~ctx.isNil /\ ctx.err THEN "cancelled" ELSE "inject"

\* Mutant: a value of another type under the name stops the call.
ContextDecision_NonBoolReturnsFalse(ctx, key) ==
    IF ~ctx.isNil /\ (ctx.err \/ Namespaced(key) \in ctx.other) THEN "cancelled"
    ELSE IF /\ ~ctx.isNil
            /\ Has(ctx.vals, Namespaced(key))
            /\ ctx.vals[Namespaced(key)] \in BOOLEAN
         THEN "override"
         ELSE "inject"

\* What InjectWithContext does with ctx before it gets to Inject(key).
ContextDecision(ctx, key) ==
    IF ~ctx.isNil /\ ctx.err THEN "cancelled"
    ELSE IF /\ ~ctx.isNil
            /\ Has(ctx.vals, Namespaced(key))
            /\ ctx.vals[Namespaced(key)] \in BOOLEAN
         THEN "override"
         ELSE "inject"

\* op(ctx, key), for an entry point that starts with InjectWithContext(ctx,
\* key): the call, the context checks and the gate.
InjectWithContextEnter(p, op, ctx, key) ==
    /\ op \in CtxOps
    /\ Enter(p, [op |-> op, key |-> key, arg |-> 0, ctx |-> ctx])
    /\ CASE ContextDecision(ctx, key) = "cancelled" -> Return(p, Outcome(op, FALSE))
         [] ContextDecision(ctx, key) = "override"  ->
                Return(p, Outcome(op, ctx.vals[Namespaced(key)]))
         [] OTHER -> InjectGate(p)
    /\ UNCHANGED <<mu, load, store, envs, sdk, ghost>>

\* The production gate of SetFailures.
SetFailuresGate(p) == IF isProductionEnvironment THEN Return(p, "void") ELSE Wait(p)

\* SetFailures(key, count) up to mu.Lock().
SetFailuresEnter(p, key, count) ==
    /\ Enter(p, [op |-> "SetFailures", key |-> key, arg |-> count, ctx |-> NoCtx])
    /\ SetFailuresGate(p)
    /\ UNCHANGED <<mu, load, store, envs, sdk, ghost>>

\* SetFailures under mu.
SetFailuresLocked(p) ==
    /\ pc[p] = "lock"
    /\ call[p].op = "SetFailures"
    /\ mu = 0
    /\ SetFailuresStore(call[p].key, call[p].arg)
    /\ Return(p, "void")
    /\ cfg' = [cfg EXCEPT ![call[p].key] = [kind |-> "FirstN", val |-> call[p].arg]]
    /\ hist' = [hist EXCEPT ![call[p].key] = << >>]
    /\ cleared' = cleared \ {call[p].key}
    /\ prev' = [k \in DOMAIN prev |-> IF k = call[p].key THEN cfg[k] ELSE prev[k]]
    /\ UNCHANGED <<mu, load, envs, sdk, call>>

\* Mutant: SetNthFailure goes for the lock without asking the environment.
SetNthFailureGate_NoGate(p) == Wait(p)

\* The production gate of SetNthFailure.
SetNthFailureGate(p) == IF isProductionEnvironment THEN Return(p, "void") ELSE Wait(p)

\* SetNthFailure(key, nth) up to mu.Lock().
SetNthFailureEnter(p, key, nth) ==
    /\ Enter(p, [op |-> "SetNthFailure", key |-> key, arg |-> nth, ctx |-> NoCtx])
    /\ SetNthFailureGate(p)
    /\ UNCHANGED <<mu, load, store, envs, sdk, ghost>>

\* SetNthFailure under mu.
SetNthFailureLocked(p) ==
    /\ pc[p] = "lock"
    /\ call[p].op = "SetNthFailure"
    /\ mu = 0
    /\ SetNthFailureStore(call[p].key, call[p].arg)
    /\ Return(p, "void")
    /\ cfg' = [cfg EXCEPT ![call[p].key] = [kind |-> "NthOnly", val |-> call[p].arg]]
    /\ hist' = [hist EXCEPT ![call[p].key] = << >>]
    /\ cleared' = cleared \ {call[p].key}
    /\ prev' = [k \in DOMAIN prev |-> IF k = call[p].key THEN cfg[k] ELSE prev[k]]
    /\ UNCHANGED <<mu, load, envs, sdk, call>>

\* Mutant: Reset asks the environment first, as the setters do.
Reset_Gated(p) ==
    /\ Enter(p, [op |-> "Reset", key |-> "", arg |-> 0, ctx |-> NoCtx])
    /\ mu = 0
    /\ Return(p, "void")
    /\ IF isProductionEnvironment
       THEN UNCHANGED <<limits, precise, counters, cfg, hist, cleared, prev>>
       ELSE /\ ResetStore
            /\ cfg' = [k \in Keys |-> NoCfg]
            /\ hist' = [k \in Keys |-> << >>]
            /\ cleared' = cleared \cup {k \in Keys : cfg[k].kind # "none"}
            /\ prev' = [k \in DOMAIN prev |-> NoCfg]
    /\ UNCHANGED <<mu, load, envs, sdk>>

\* Reset(): not gated, one critical section.
Reset(p) ==
    /\ Enter(p, [op |-> "Reset", key |-> "", arg |-> 0, ctx |-> NoCtx])
    /\ mu = 0
    /\ ResetStore
    /\ Return(p, "void")
    /\ cfg' = [k \in Keys |-> NoCfg]
    /\ hist' = [k \in Keys |-> << >>]
    /\ cleared' = cleared \cup {k \in Keys : cfg[k].kind # "none"}
    /\ prev' = [k \in DOMAIN prev |-> NoCfg]
    /\ UNCHANGED <<mu, load, envs, sdk>>

\* Mutant: Status reads the maps without taking mu.
Status_NoLock(p) ==
    /\ Enter(p, [op |-> "Status", key |-> "", arg |-> 0, ctx |-> NoCtx])
    /\ Return(p, StatusOut)
    /\ UNCHANGED <<mu, load, store, envs, sdk, ghost>>

\* Status(): not gated, one critical section.
Status(p) ==
    /\ Enter(p, [op |-> "Status", key |-> "", arg |-> 0, ctx |-> NoCtx])
    /\ mu = 0
    /\ Return(p, StatusOut)
    /\ UNCHANGED <<mu, load, store, envs, sdk, ghost>>

\* Mutant: the new names are added to the list in place.
SetAllowedEnvironments_Appends(p, list) ==
    /\ Enter(p, [op |-> "SetAllowedEnvironments", key |-> "", arg |-> list, ctx |-> NoCtx])
    /\ mu = 0
    /\ allowedEnvironments' = allowedEnvironments \o list
    /\ Return(p, "void")
    /\ UNCHANGED <<sdk, mu, load, limits, precise, counters, productionEnvironments,
                   environ, cfg, hist, cleared, prev>>

\* SetAllowedEnvironments(envs): one critical section.
SetAllowedEnvironments(p, list) ==
    /\ Enter(p, [op |-> "SetAllowedEnvironments", key |-> "", arg |-> list, ctx |-> NoCtx])
    /\ mu = 0
    /\ allowedEnvironments' = list
    /\ Return(p, "void")
    /\ UNCHANGED <<sdk, mu, load, limits, precise, counters, productionEnvironments,
                   environ, cfg, hist, cleared, prev>>

\* SetProductionEnvironments(envs): one critical section.
SetProductionEnvironments(p, list) ==
    /\ Enter(p, [op |-> "SetProductionEnvironments", key |-> "", arg |-> list, ctx |-> NoCtx])
    /\ mu = 0
    /\ productionEnvironments' = list
    /\ Return(p, "void")
    /\ UNCHANGED <<sdk, mu, load, limits, precise, counters, allowedEnvironments,
                   environ, cfg, hist, cleared, prev>>

\* The caller takes the returned value and is free to call again.
Returned(p) ==
    /\ pc[p] = "done"
    /\ pc' = [pc EXCEPT ![p] = "idle"]
    /\ call' = [call EXCEPT ![p] = NoCall]
    /\ ret' = [ret EXCEPT ![p] = "none"]
    /\ UNCHANGED <<mu, load, store, envs, sdk, ghost>>

\* ---------------------------------------------------------------- LoadSpec
\* A scalar of a document: an integer, or something yaml cannot put in an int.
Num(n) == [isInt |-> TRUE, n |-> n]
NotNum == [isInt |-> FALSE, n |-> 0]

\* The files the process can be pointed at, by path; a path outside the
\* domain does not exist.
Files ==
    [path \in {"malformed.yaml", "badvalue.yaml", "both.yaml", "first.yaml"} |->
        CASE path = "first.yaml" ->
                 [wellFormed |-> TRUE,
                  failures |-> Put(EmptyMap, "k1", Num(1)),
                  precise |-> EmptyMap]
          [] path = "malformed.yaml" ->
                 [wellFormed |-> FALSE, failures |-> EmptyMap, precise |-> EmptyMap]
          [] path = "badvalue.yaml" ->
                 [wellFormed |-> TRUE,
                  failures |-> Put(EmptyMap, "k1", NotNum),
                  precise |-> EmptyMap]
          [] path = "both.yaml" ->
                 [wellFormed |-> TRUE,
                  failures |-> Put(Put(EmptyMap, "k1", Num(1)), "k2", Num(MaxArg)),
                  precise |-> Put(EmptyMap, "k1", Num(MaxArg))]]

Paths == DOMAIN Files \cup {"missing.yaml"}

\* os.ReadFile(path) succeeds.
ReadFileOk(path) == path \in DOMAIN Files

\* Mutant: a value that is no integer is let through (and read as 0).
UnmarshalOk_IgnoresValues(data) == data.wellFormed

\* yaml.Unmarshal(data, &cfg) succeeds: the document is well formed and every
\* value of both sections is an integer.
UnmarshalOk(data) ==
    /\ data.wellFormed
    /\ \A k \in DOMAIN data.failures : data.failures[k].isInt
    /\ \A k \in DOMAIN data.precise : data.precise[k].isInt

\* The Spec value Unmarshal fills in.
Unmarshal(data) ==
    [failures |-> [k \in DOMAIN data.failures |-> data.failures[k].n],
     precise  |-> [k \in DOMAIN data.precise |-> data.precise[k].n],
     cur      |-> NoEntry]

\* Mutant: LoadSpec does not clear the store before it applies the document.
LoadSpecReset_Skipped ==
    /\ UNCHANGED <<limits, precise, counters>>
    /\ UNCHANGED <<cfg, hist, cleared, prev>>

\* Mutant: the Reset() of LoadSpec is gated like the setters.
LoadSpecReset_Gated ==
    IF isProductionEnvironment
    THEN /\ UNCHANGED <<limits, precise, counters>>
         /\ UNCHANGED <<cfg, hist, cleared, prev>>
    ELSE /\ ResetStore
         /\ cfg' = [k \in Keys |-> NoCfg]
         /\ hist' = [k \in Keys |-> << >>]
         /\ cleared' = cleared \cup {k \in Keys : cfg[k].kind # "none"}
         /\ prev' = [k \in DOMAIN prev |-> NoCfg]

\* The Reset() call of LoadSpec.
LoadSpecReset ==
    /\ ResetStore
    /\ cfg' = [k \in Keys |-> NoCfg]
    /\ hist' = [k \in Keys |-> << >>]
    /\ cleared' = cleared \cup {k \in Keys : cfg[k].kind # "none"}
    /\ prev' = [k \in DOMAIN prev |-> NoCfg]

\* LoadSpec(path) up to and including its Reset(): a file that cannot be read
\* or decoded returns the error before anything is touched.
LoadSpecEnter(p, path) ==
    /\ Enter(p, [op |-> "LoadSpec", key |-> path, arg |-> 0, ctx |-> NoCtx])
    /\ IF ReadFileOk(path) /\ UnmarshalOk(Files[path])
       THEN /\ mu = 0
            /\ LoadSpecReset
            /\ pc' = [pc EXCEPT ![p] = "load"]
            /\ load' = [load EXCEPT ![p] = Unmarshal(Files[path])]
            /\ UNCHANGED ret
       ELSE /\ Return(p, "error")
            /\ UNCHANGED <<store, ghost, load>>
    /\ UNCHANGED <<mu, envs, sdk>>

\* Mutant: the loop over PreciseFailures runs before the loop over Failures.
NextEntries_PreciseFirst(l) ==
    IF DOMAIN l.precise # {}
    THEN {[op |-> "SetNthFailure", key |-> k, arg |-> l.precise[k]] : k \in DOMAIN l.precise}
    ELSE {[op |-> "SetFailures", key |-> k, arg |-> l.failures[k]] : k \in DOMAIN l.failures}

\* The entry the two range loops take next: any entry of Failures while there
\* is one, then any entry of PreciseFailures.
NextEntries(l) ==
    IF DOMAIN l.failures # {}
    THEN {[op |-> "SetFailures", key |-> k, arg |-> l.failures[k]] : k \in DOMAIN l.failures}
    ELSE {[op |-> "SetNthFailure", key |-> k, arg |-> l.precise[k]] : k \in DOMAIN l.precise}

Without(l, e) ==
    IF e.op = "SetFailures"
    THEN [l EXCEPT !.failures = Delete(l.failures, e.key)]
    ELSE [l EXCEPT !.precise = Delete(l.precise, e.key)]

\* LoadSpec calls SetFailures / SetNthFailure for the next entry: the call's
\* production gate, which drops the entry or lets it go for the lock.
LoadSpecCall(p) ==
    /\ pc[p] = "load"
    /\ \E e \in NextEntries(load[p]) :
          IF isProductionEnvironment
          THEN /\ load' = [load EXCEPT ![p] = Without(load[p], e)]
               /\ UNCHANGED pc
          ELSE /\ load' = [load EXCEPT ![p] = [Without(load[p], e) EXCEPT !.cur = e]]
               /\ pc' = [pc EXCEPT ![p] = "loadlock"]
    /\ UNCHANGED <<mu, store, envs, sdk, call, ret, ghost>>

\* The call LoadSpec made runs under mu and returns to the loop.
LoadSpecLocked(p) ==
    /\ pc[p] = "loadlock"
    /\ mu = 0
    /\ LET e == load[p].cur IN
         /\ IF e.op = "SetFailures"
            THEN SetFailuresStore(e.key, e.arg)
            ELSE SetNthFailureStore(e.key, e.arg)
         /\ cfg' = [cfg EXCEPT ![e.key] =
                       [kind |-> IF e.op = "SetFailures" THEN "FirstN" ELSE "NthOnly",
                        val |-> e.arg]]
         /\ hist' = [hist EXCEPT ![e.key] = << >>]
         /\ cleared' = cleared \ {e.key}
         /\ prev' = [k \in DOMAIN prev |-> IF k = e.key THEN cfg[k] ELSE prev[k]]
    /\ load' = [load EXCEPT ![p].cur = NoEntry]
    /\ pc' = [pc EXCEPT ![p] = "load"]
    /\ UNCHANGED <<mu, envs, sdk, call, ret>>

\* Both loops are done: LoadSpec returns nil.
LoadSpecReturn(p) ==
    /\ pc[p] = "load"
    /\ NextEntries(load[p]) = {}
    /\ Return(p, "nil")
    /\ load' = [load EXCEPT ![p] = NoLoad]
    /\ UNCHANGED <<mu, store, envs, sdk, call, ghost>>

\* ------------------------------------------------- the lists, step by step
\* The same calls with the steps inside them that other goroutines can fall
\* between: a list setter between mu.Lock() and its assignment, a gated call
\* between reading the environment variables and ranging over the two lists.
ListSetters == {"SetAllowedEnvironments", "SetProductionEnvironments"}

\* SetAllowedEnvironments / SetProductionEnvironments: mu.Lock().
SetListLock(p, op, list) ==
    /\ op \in ListSetters
    /\ Enter(p, [op |-> op, key |-> "", arg |-> list, ctx |-> NoCtx])
    /\ mu = 0
    /\ mu' = p
    /\ pc' = [pc EXCEPT ![p] = "write"]
    /\ UNCHANGED <<load, store, envs, sdk, ret, ghost>>

\* The assignment to the list and the deferred mu.Unlock().
SetListWrite(p) ==
    /\ pc[p] = "write"
    /\ mu = p
    /\ IF call[p].op = "SetAllowedEnvironments"
       THEN allowedEnvironments' = call[p].arg /\ UNCHANGED productionEnvironments
       ELSE productionEnvironments' = call[p].arg /\ UNCHANGED allowedEnvironments
    /\ mu' = 0
    /\ Return(p, "void")
    /\ UNCHANGED <<sdk, load, store, environ, call, ghost>>

\* Inject / SetFailures / SetNthFailure enters isProductionEnvironment; it
\* holds no lock.
GateEnter(p, op, key, arg) ==
    /\ op \in {"Inject"} \cup {"SetFailures", "SetNthFailure"}
    /\ Enter(p, [op |-> op, key |-> key, arg |-> arg, ctx |-> NoCtx])
    /\ pc' = [pc EXCEPT ![p] = "gate"]
    /\ UNCHANGED <<mu, load, store, envs, sdk, ret, ghost>>

\* A setter is between its Lock and its Unlock: the list it assigns is being
\* written.
ListBeingWritten == \E q \in Procs : pc[q] = "write"

\* The two range loops of isProductionEnvironment. Reading a slice that
\* another goroutine is assigning is a data race: the reader may see the old
\* header, the new one or a mix of both, so either verdict may come out.
GateRead(p) ==
    /\ pc[p] = "gate"
    /\ \E production \in IF ListBeingWritten THEN BOOLEAN ELSE {isProductionEnvironment} :
          IF production
          THEN Return(p, IF call[p].op = "Inject" THEN FALSE ELSE "void")
          ELSE (call[p].op = "Inject" => MayEvaluate(call[p].key)) /\ Wait(p)
    /\ UNCHANGED <<mu, load, store, envs, sdk, call, ghost>>

\* ----------------------------------------------------- Reset, step by step
\* Reset() with its three assignments as separate steps, all of them between
\* mu.Lock() and the deferred mu.Unlock().
ResetSteps == {"reset.limits", "reset.precise", "reset.counters"}

ResetLock(p) ==
    /\ Enter(p, [op |-> "Reset", key |-> "", arg |-> 0, ctx |-> NoCtx])
    /\ mu = 0
    /\ mu' = p
    /\ pc' = [pc EXCEPT ![p] = "reset.limits"]
    /\ UNCHANGED <<load, store, envs, sdk, ret, ghost>>

ResetLimits(p) ==
    /\ pc[p] = "reset.limits"
    /\ mu = p
    /\ limits' = EmptyMap
    /\ pc' = [pc EXCEPT ![p] = "reset.precise"]
    /\ UNCHANGED <<mu, load, precise, counters, envs, sdk, call, ret, ghost>>

ResetPrecise(p) ==
    /\ pc[p] = "reset.precise"
    /\ mu = p
    /\ precise' = EmptyMap
    /\ pc' = [pc EXCEPT ![p] = "reset.counters"]
    /\ UNCHANGED <<mu, load, limits, counters, envs, sdk, call, ret, ghost>>

ResetCounters(p) ==
    /\ pc[p] = "reset.counters"
    /\ mu = p
    /\ counters' = EmptyMap
    /\ mu' = 0
    /\ Return(p, "void")
    /\ cfg' = [k \in Keys |-> NoCfg]
    /\ hist' = [k \in Keys |-> << >>]
    /\ cleared' = cleared \cup {k \in Keys : cfg[k].kind # "none"}
    /\ prev' = [k \in DOMAIN prev |-> NoCfg]
    /\ UNCHANGED <<load, limits, precise, envs, sdk, call>>

\* ------------------------------------------------- callbacks, step by step
\* InjectWithFn and the middleware with what follows their call of Inject as
\* steps of its own: the caller's fn, or responseFn / the next handler, runs
\* after Inject has returned, and may itself call the package.
CallbackOps == {"InjectWithFn", "HTTPMiddlewareWithResponse"}
NestedOps   == {"Inject", "SetFailures", "Reset"}

\* InjectWithFn invokes fn only on true; the middleware invokes responseFn on
\* true and the next handler on false.
RunsCallback(op, d) == op = "HTTPMiddlewareWithResponse" \/ d

\* Mutant: the callback is invoked before Inject's deferred mu.Unlock().
HolderAfterInject_StillLocked(p) == p

\* Who holds mu when Inject has returned to the adapter: nobody, the deferred
\* mu.Unlock() has run.
HolderAfterInject(p) == 0

\* The adapter's Inject(key) under mu, up to the point where the adapter has
\* the decision in hand.
DecideLocked(p) ==
    /\ pc[p] = "lock"
    /\ call[p].op \in CallbackOps
    /\ mu = 0
    /\ LET key == call[p].key
           cnt == Attempt(key)
           d   == Verdict(key, cnt)
       IN  /\ counters' = Put(counters, key, cnt)
           /\ hist' = [hist EXCEPT ![key] =
                          Append(@, [attempt |-> cnt, ret |-> d, proc |-> p])]
           /\ IF RunsCallback(call[p].op, d)
              THEN /\ pc' = [pc EXCEPT ![p] = "fn"]
                   /\ ret' = [ret EXCEPT ![p] = d]
                   /\ mu' = HolderAfterInject(p)
              ELSE /\ Return(p, Outcome(call[p].op, d))
                   /\ UNCHANGED mu
    /\ UNCHANGED <<load, limits, precise, envs, sdk, call, cfg, cleared, prev>>

\* The callback calls Inject(key), SetFailures(key, n) or Reset(): the call's
\* production gate, if it has one.
FnCall(p, op, key, n) ==
    /\ pc[p] = "fn"
    /\ op \in NestedOps
    /\ op = "Inject" => MayEvaluate(key)
    /\ IF op # "Reset" /\ isProductionEnvironment
       THEN /\ pc' = [pc EXCEPT ![p] = "fn.done"]
            /\ UNCHANGED load
       ELSE /\ pc' = [pc EXCEPT ![p] = "fn.lock"]
            /\ load' = [load EXCEPT ![p].cur = [op |-> op, key |-> key, arg |-> n]]
    /\ UNCHANGED <<mu, store, envs, sdk, call, ret, ghost>>

\* The call the callback made runs under mu and returns to the callback.
FnLocked(p) ==
    /\ pc[p] = "fn.lock"
    /\ mu = 0
    /\ LET e == load[p].cur IN
         CASE e.op = "Inject" ->
                /\ counters' = Put(counters, e.key, Attempt(e.key))
                /\ hist' = [hist EXCEPT ![e.key] =
                               Append(@, [attempt |-> Attempt(e.key),
                                          ret |-> Verdict(e.key, Attempt(e.key)),
                                          proc |-> p])]
                /\ UNCHANGED <<limits, precise, cfg, cleared, prev>>
           [] e.op = "SetFailures" ->
                /\ SetFailuresStore(e.key, e.arg)
                /\ cfg' = [cfg EXCEPT ![e.key] = [kind |-> "FirstN", val |-> e.arg]]
                /\ hist' = [hist EXCEPT ![e.key] = << >>]
                /\ cleared' = cleared \ {e.key}
                /\ prev' = [k \in DOMAIN prev |-> IF k = e.key THEN cfg[k] ELSE prev[k]]
           [] OTHER ->
                /\ ResetStore
                /\ cfg' = [k \in Keys |-> NoCfg]
                /\ hist' = [k \in Keys |-> << >>]
                /\ cleared' = cleared \cup {k \in Keys : cfg[k].kind # "none"}
                /\ prev' = [k \in DOMAIN prev |-> NoCfg]
    /\ load' = [load EXCEPT ![p].cur = NoEntry]
    /\ pc' = [pc EXCEPT ![p] = "fn.done"]
    /\ UNCHANGED <<mu, envs, sdk, call, ret>>

\* The callback returns, with or without having called the package, and the
\* adapter returns.
FnReturn(p) ==
    /\ pc[p] \in {"fn", "fn.done"}
    /\ Return(p, Outcome(call[p].op, ret[p]))
    /\ UNCHANGED <<mu, load, store, envs, sdk, call, ghost>>

\* ---------------------------------------------------------- control server
\* strconv.Atoi on the characters of a query parameter: an optional sign and
\* then decimal digits, at least one; anything else is an error.
Digits == <<"0","1","2","3","4","5","6","7","8","9">>

IsDigit(c)  == \E i \in DOMAIN Digits : Digits[i] = c
DigitVal(c) == (CHOOSE i \in DOMAIN Digits : Digits[i] = c) - 1

Unsigned(s) == IF s # << >> /\ s[1] \in {"+", "-"} THEN Tail(s) ELSE s

AtoiOk(s) == /\ Unsigned(s) # << >>
             /\ \A i \in DOMAIN Unsigned(s) : IsDigit(Unsigned(s)[i])

RECURSIVE DecimalValue(_)
DecimalValue(s) ==
    IF s = << >> THEN 0
    ELSE 10 * DecimalValue(SubSeq(s, 1, Len(s) - 1)) + DigitVal(s[Len(s)])

Atoi(s) == IF s # << >> /\ s[1] = "-"
           THEN 0 - DecimalValue(Unsigned(s))
           ELSE DecimalValue(Unsigned(s))

\* Mutant: a count that does not parse is read as 1.
CountParam_DefaultsToOne(s) == IF AtoiOk(s) THEN Atoi(s) ELSE 1

\* c, _ := strconv.Atoi(r.URL.Query().Get("count")): the error is dropped and
\* c is 0 with it.
CountParam(s) == IF AtoiOk(s) THEN Atoi(s) ELSE 0

Request(method, path, count) == [method |-> method, path |-> path, count |-> count]
Response(code, body)         == [code |-> code, body |-> body]

\* A request reaches the mux: /reset and /status are served in this step, /set
\* up to the gate of its SetFailures call, any other path gets the mux's 404.
\* No handler looks at the method.
ServeHTTP(p, req, key) ==
    /\ Enter(p, [op |-> "ServeHTTP", key |-> key, arg |-> req, ctx |-> NoCtx])
    /\ CASE req.path = "/set" ->
              /\ IF isProductionEnvironment
                 THEN Return(p, Response(200, "OK"))
                 ELSE Wait(p)
              /\ UNCHANGED <<store, ghost>>
         [] req.path = "/reset" ->
              /\ mu = 0
              /\ ResetStore
              /\ cfg' = [k \in Keys |-> NoCfg]
              /\ hist' = [k \in Keys |-> << >>]
              /\ cleared' = cleared \cup {k \in Keys : cfg[k].kind # "none"}
              /\ prev' = [k \in DOMAIN prev |-> NoCfg]
              /\ Return(p, Response(200, "OK"))
         [] req.path = "/status" ->
              /\ mu = 0
              /\ Return(p, Response(200, StatusOut))
              /\ UNCHANGED <<store, ghost>>
         [] OTHER ->
              /\ Return(p, Response(404, "404 page not found"))
              /\ UNCHANGED <<store, ghost>>
    /\ UNCHANGED <<mu, load, envs, sdk>>

\* The SetFailures(k, c) of the /set handler under mu, and its "OK".
ServeSetLocked(p) ==
    /\ pc[p] = "lock"
    /\ call[p].op = "ServeHTTP"
    /\ mu = 0
    /\ SetFailuresStore(call[p].key, CountParam(call[p].arg.count))
    /\ Return(p, Response(200, "OK"))
    /\ cfg' = [cfg EXCEPT ![call[p].key] =
                  [kind |-> "FirstN", val |-> CountParam(call[p].arg.count)]]
    /\ hist' = [hist EXCEPT ![call[p].key] = << >>]
    /\ cleared' = cleared \ {call[p].key}
    /\ prev' = [k \in DOMAIN prev |-> IF k = call[p].key THEN cfg[k] ELSE prev[k]]
    /\ UNCHANGED <<mu, load, envs, sdk, call>>

\* ----------------------------------------------------------- specifications
\* Spec: one goroutine drives the core API on two keys while the variable
\* ENVIRONMENT changes under it at any moment.
MainProcs   == {1}
CoreCtxs    == {NoCtx, Background, Cancelled,
                WithValue(Background, Namespaced("k1"), TRUE),
                WithValue(Cancelled, Namespaced("k1"), TRUE)}
CoreEnvVals == {sEmpty, sDevelopment, sProdMixed}

Next ==
    \/ \E p \in MainProcs, k \in Keys : InjectEnter(p, "Inject", k)
    \/ \E p \in MainProcs : InjectLocked(p)
    \/ \E p \in MainProcs, k \in Keys, c \in CoreCtxs :
          InjectWithContextEnter(p, "InjectWithContext", c, k)
    \/ \E p \in MainProcs, k \in Keys, n \in Args : SetFailuresEnter(p, k, n)
    \/ \E p \in MainProcs : SetFailuresLocked(p)
    \/ \E p \in MainProcs, k \in Keys, n \in Args : SetNthFailureEnter(p, k, n)
    \/ \E p \in MainProcs : SetNthFailureLocked(p)
    \/ \E p \in MainProcs : Reset(p)
    \/ \E p \in MainProcs : Status(p)
    \/ \E p \in MainProcs : Returned(p)
    \/ \E v \in CoreEnvVals : Setenv("ENVIRONMENT", v)

Spec == Init /\ [][Next]_vars

\* SpecConc: every goroutine calls the store concurrently on one key in a
\* process started with ENVIRONMENT=development.
ConcKeys == {"k1"}
ConcArgs == {1, NumProcs + 1}

InitConc ==
    /\ mu = 0
    /\ limits = EmptyMap
    /\ precise = EmptyMap
    /\ counters = EmptyMap
    /\ allowedEnvironments = DefaultAllowedEnvironments
    /\ productionEnvironments = DefaultProductionEnvironments
    /\ environ = [n \in EnvVarNames |-> IF n = "ENVIRONMENT" THEN sDevelopment ELSE sEmpty]
    /\ pc = [p \in Procs |-> "idle"]
    /\ call = [p \in Procs |-> NoCall]
    /\ ret = [p \in Procs |-> "none"]
    /\ cfg = [k \in Keys |-> NoCfg]
    /\ hist = [k \in Keys |-> << >>]
    /\ cleared = {}
    /\ prev = EmptyMap
    /\ load = [p \in Procs |-> NoLoad]
    /\ sdk = SdkUnset

NextConc ==
    \/ \E p \in Procs, k \in ConcKeys : InjectEnter(p, "Inject", k)
    \/ \E p \in Procs : InjectLocked(p)
    \/ \E p \in Procs, k \in ConcKeys, n \in ConcArgs : SetFailuresEnter(p, k, n)
    \/ \E p \in Procs : SetFailuresLocked(p)
    \/ \E p \in Procs : Status(p)
    \/ \E p \in Procs : Returned(p)

SpecConc == InitConc /\ [][NextConc]_vars

\* SpecAdapters: one goroutine calls every decision entry point on one key
\* while ENVIRONMENT changes.
AdapterKeys == {"k1"}
AdapterArgs == {1, MaxArg}
AdapterCtxs == {NoCtx, Background, Cancelled,
                WithValue(Background, Namespaced("k1"), TRUE),
                WithValue(Background, Namespaced("k1"), FALSE),
                WithValue(Background, Namespaced("k2"), TRUE),
                WithNonBool(Background, Namespaced("k1"))}

NextAdapters ==
    \/ \E p \in MainProcs, op \in PlainOps, k \in AdapterKeys : InjectEnter(p, op, k)
    \/ \E p \in MainProcs : InjectLocked(p)
    \/ \E p \in MainProcs, op \in CtxOps, k \in AdapterKeys, c \in AdapterCtxs :
          InjectWithContextEnter(p, op, c, k)
    \/ \E p \in MainProcs, k \in AdapterKeys, n \in AdapterArgs : SetFailuresEnter(p, k, n)
    \/ \E p \in MainProcs : SetFailuresLocked(p)
    \/ \E p \in MainProcs, k \in AdapterKeys, n \in AdapterArgs : SetNthFailureEnter(p, k, n)
    \/ \E p \in MainProcs : SetNthFailureLocked(p)
    \/ \E p \in MainProcs : Returned(p)
    \/ \E v \in CoreEnvVals : Setenv("ENVIRONMENT", v)

SpecAdapters == Init /\ [][NextAdapters]_vars

\* SpecReconf: one goroutine configures one key again and again, in a
\* process started with ENVIRONMENT=development; the configuration each one
\* replaces is recorded for that key.
ReconfKeys == {"k1"}

InitReconf ==
    /\ mu = 0
    /\ limits = EmptyMap
    /\ precise = EmptyMap
    /\ counters = EmptyMap
    /\ allowedEnvironments = DefaultAllowedEnvironments
    /\ productionEnvironments = DefaultProductionEnvironments
    /\ environ = [n \in EnvVarNames |-> IF n = "ENVIRONMENT" THEN sDevelopment ELSE sEmpty]
    /\ pc = [p \in Procs |-> "idle"]
    /\ call = [p \in Procs |-> NoCall]
    /\ ret = [p \in Procs |-> "none"]
    /\ cfg = [k \in Keys |-> NoCfg]
    /\ hist = [k \in Keys |-> << >>]
    /\ cleared = {}
    /\ prev = [k \in ReconfKeys |-> NoCfg]
    /\ load = [p \in Procs |-> NoLoad]
    /\ sdk = SdkUnset

NextReconf ==
    \/ \E p \in MainProcs, k \in ReconfKeys : InjectEnter(p, "Inject", k)
    \/ \E p \in MainProcs : InjectLocked(p)
    \/ \E p \in MainProcs, k \in ReconfKeys, n \in Args : SetFailuresEnter(p, k, n)
    \/ \E p \in MainProcs : SetFailuresLocked(p)
    \/ \E p \in MainProcs, k \in ReconfKeys, n \in Args : SetNthFailureEnter(p, k, n)
    \/ \E p \in MainProcs : SetNthFailureLocked(p)
    \/ \E p \in MainProcs : Reset(p)
    \/ \E p \in MainProcs : Status(p)
    \/ \E p \in MainProcs : Returned(p)

SpecReconf == InitReconf /\ [][NextReconf]_vars

\* SpecLoad: one goroutine loads documents, another evaluates, resets and
\* asks for the status, both configure, and ENVIRONMENT changes between
\* development and production at any moment.
LoadProcs   == {1}
LoadOthers  == {NumProcs}
LoadEnvVals == {sDevelopment, sProduction}
LoadArgs    == {MaxArg}

InitLoad ==
    /\ mu = 0
    /\ limits = EmptyMap
    /\ precise = EmptyMap
    /\ counters = EmptyMap
    /\ allowedEnvironments = DefaultAllowedEnvironments
    /\ productionEnvironments = DefaultProductionEnvironments
    /\ environ = [n \in EnvVarNames |-> IF n = "ENVIRONMENT" THEN sDevelopment ELSE sEmpty]
    /\ pc = [p \in Procs |-> "idle"]
    /\ call = [p \in Procs |-> NoCall]
    /\ ret = [p \in Procs |-> "none"]
    /\ cfg = [k \in Keys |-> NoCfg]
    /\ hist = [k \in Keys |-> << >>]
    /\ cleared = {}
    /\ prev = EmptyMap
    /\ load = [p \in Procs |-> NoLoad]
    /\ sdk = SdkUnset

NextLoad ==
    \/ \E p \in LoadProcs, path \in Paths : LoadSpecEnter(p, path)
    \/ \E p \in LoadProcs : LoadSpecCall(p)
    \/ \E p \in LoadProcs : LoadSpecLocked(p)
    \/ \E p \in LoadProcs : LoadSpecReturn(p)
    \/ \E p \in LoadOthers, k \in ReconfKeys : InjectEnter(p, "Inject", k)
    \/ \E p \in LoadOthers : InjectLocked(p)
    \/ \E p \in LoadProcs \cup LoadOthers, k \in ReconfKeys, n \in LoadArgs : SetFailuresEnter(p, k, n)
    \/ \E p \in LoadProcs \cup LoadOthers : SetFailuresLocked(p)
    \/ \E p \in LoadProcs \cup LoadOthers, k \in ReconfKeys, n \in LoadArgs : SetNthFailureEnter(p, k, n)
    \/ \E p \in LoadProcs \cup LoadOthers : SetNthFailureLocked(p)
    \/ \E p \in LoadOthers : Reset(p)
    \/ \E p \in LoadOthers : Status(p)
    \/ \E p \in LoadProcs \cup LoadOthers : Returned(p)
    \/ \E v \in LoadEnvVals : Setenv("ENVIRONMENT", v)

SpecLoad == InitLoad /\ [][NextLoad]_vars

\* SpecEnv: one goroutine sets the two classification lists and the three
\* environment variables and calls the gated operations on one key.
EnvKeys         == {"k1"}
EnvArgs         == {1}
AllowedLists    == {DefaultAllowedEnvironments, <<sQa, sProd>>, << >>}
ProductionLists == {DefaultProductionEnvironments, <<sQa>>, << >>}
EnvVals         == [n \in EnvVarNames |->
                      CASE n = "ENVIRONMENT" -> {sEmpty, sDevelopment, sProdMixed, sQa}
                        [] n = "ENV"         -> {sEmpty, sDevMixed}
                        [] n = "GO_ENV"      -> {sEmpty, sQa}]

NextEnv ==
    \/ \E p \in MainProcs, l \in AllowedLists : SetAllowedEnvironments(p, l)
    \/ \E p \in MainProcs, l \in ProductionLists : SetProductionEnvironments(p, l)
    \/ \E n \in EnvVarNames : \E v \in EnvVals[n] : Setenv(n, v)
    \/ \E p \in MainProcs, k \in EnvKeys : InjectEnter(p, "Inject", k)
    \/ \E p \in MainProcs : InjectLocked(p)
    \/ \E p \in MainProcs, k \in EnvKeys, n \in EnvArgs : SetFailuresEnter(p, k, n)
    \/ \E p \in MainProcs : SetFailuresLocked(p)
    \/ \E p \in MainProcs, k \in EnvKeys, n \in EnvArgs : SetNthFailureEnter(p, k, n)
    \/ \E p \in MainProcs : SetNthFailureLocked(p)
    \/ \E p \in MainProcs : Returned(p)

SpecEnv == Init /\ [][NextEnv]_vars

\* SpecLoadSeq: one goroutine configures, evaluates and loads documents, one
\* call after the other; ENVIRONMENT changes only between two calls.
SetenvBetweenCalls(name, val) ==
    /\ \A p \in Procs : pc[p] = "idle"
    /\ Setenv(name, val)

NextLoadSeq ==
    \/ \E p \in MainProcs, path \in Paths : LoadSpecEnter(p, path)
    \/ \E p \in MainProcs : LoadSpecCall(p)
    \/ \E p \in MainProcs : LoadSpecLocked(p)
    \/ \E p \in MainProcs : LoadSpecReturn(p)
    \/ \E p \in MainProcs, k \in Keys : InjectEnter(p, "Inject", k)
    \/ \E p \in MainProcs : InjectLocked(p)
    \/ \E p \in MainProcs, k \in Keys, n \in LoadArgs : SetFailuresEnter(p, k, n)
    \/ \E p \in MainProcs : SetFailuresLocked(p)
    \/ \E p \in MainProcs, k \in Keys, n \in LoadArgs : SetNthFailureEnter(p, k, n)
    \/ \E p \in MainProcs : SetNthFailureLocked(p)
    \/ \E p \in MainProcs : Status(p)
    \/ \E p \in MainProcs : Returned(p)
    \/ \E v \in LoadEnvVals : SetenvBetweenCalls("ENVIRONMENT", v)

SpecLoadSeq == InitLoad /\ [][NextLoadSeq]_vars

\* SpecServer: one client sends requests to the control server and the
\* program calls Inject on the same key, while ENVIRONMENT changes between
\* development and production at any moment.
Methods     == {"POST", "PUT"}
ServedPaths == {"/set", "/reset", "/status", "/other"}
CountParams == {<< >>, <<"1">>, <<"-", "1">>, <<"1", "2">>, <<"1", "x">>}
ServerKeys  == {"k1"}

NextServer ==
    \/ \E p \in MainProcs, m \in Methods, path \in ServedPaths,
          c \in CountParams, k \in ServerKeys : ServeHTTP(p, Request(m, path, c), k)
    \/ \E p \in MainProcs : ServeSetLocked(p)
    \/ \E p \in MainProcs, k \in ServerKeys : InjectEnter(p, "Inject", k)
    \/ \E p \in MainProcs : InjectLocked(p)
    \/ \E p \in MainProcs : Returned(p)
    \/ \E v \in LoadEnvVals : Setenv("ENVIRONMENT", v)

SpecServer == InitLoad /\ [][NextServer]_vars

\* SpecRace: two goroutines set the lists and make gated calls on one key at
\* the same time, ENVIRONMENT=development throughout.
RaceLists == {<<sDevelopment>>, <<sQa>>}

NextRace ==
    \/ \E p \in LoadProcs \cup LoadOthers, op \in ListSetters, l \in RaceLists : SetListLock(p, op, l)
    \/ \E p \in LoadProcs \cup LoadOthers : SetListWrite(p)
    \/ \E p \in LoadProcs \cup LoadOthers, k \in EnvKeys : GateEnter(p, "Inject", k, 0)
    \/ \E p \in LoadProcs \cup LoadOthers, k \in EnvKeys, n \in EnvArgs : GateEnter(p, "SetFailures", k, n)
    \/ \E p \in LoadProcs \cup LoadOthers : GateRead(p)
    \/ \E p \in LoadProcs \cup LoadOthers : InjectLocked(p)
    \/ \E p \in LoadProcs \cup LoadOthers : SetFailuresLocked(p)
    \/ \E p \in LoadProcs \cup LoadOthers : Returned(p)

SpecRace == InitLoad /\ [][NextRace]_vars

\* SpecReset: one goroutine configures and resets while another evaluates
\* and asks for the status, ENVIRONMENT=development throughout; k1 gets
\* first-N rules and k2 Nth-only rules.
NextReset ==
    \/ \E p \in LoadProcs : ResetLock(p)
    \/ \E p \in LoadProcs : ResetLimits(p)
    \/ \E p \in LoadProcs : ResetPrecise(p)
    \/ \E p \in LoadProcs : ResetCounters(p)
    \/ \E p \in LoadOthers, k \in Keys : InjectEnter(p, "Inject", k)
    \/ \E p \in LoadOthers : InjectLocked(p)
    \/ \E p \in LoadProcs, n \in EnvArgs : SetFailuresEnter(p, "k1", n)
    \/ \E p \in LoadProcs : SetFailuresLocked(p)
    \/ \E p \in LoadProcs, n \in EnvArgs : SetNthFailureEnter(p, "k2", n)
    \/ \E p \in LoadProcs : SetNthFailureLocked(p)
    \/ \E p \in LoadOthers : Status(p)
    \/ \E p \in LoadProcs \cup LoadOthers : Returned(p)

SpecReset == InitLoad /\ [][NextReset]_vars

\* SpecNoBlock: one goroutine calls InjectWithFn and the middleware, whose
\* callbacks call the package again, while another makes every other call of
\* the core, ENVIRONMENT=development throughout. Continue(p) is the next
\* step of the call p has started, where there is one it can take.
NoBlockCtxs == {Background, WithValue(Background, Namespaced("k1"), TRUE)}

Continue(p) ==
    \/ call[p].op \notin CallbackOps /\ InjectLocked(p)
    \/ DecideLocked(p)
    \/ \E op \in NestedOps, k \in EnvKeys, n \in EnvArgs : FnCall(p, op, k, n)
    \/ FnLocked(p)
    \/ FnReturn(p)
    \/ SetFailuresLocked(p)
    \/ SetNthFailureLocked(p)
    \/ ResetLimits(p)
    \/ ResetPrecise(p)
    \/ ResetCounters(p)
    \/ SetListWrite(p)

NextNoBlock ==
    \/ \E p \in LoadProcs, op \in CallbackOps, k \in EnvKeys : InjectEnter(p, op, k)
    \/ \E p \in LoadProcs : DecideLocked(p)
    \/ \E p \in LoadProcs, op \in NestedOps, k \in EnvKeys, n \in EnvArgs : FnCall(p, op, k, n)
    \/ \E p \in LoadProcs : FnLocked(p)
    \/ \E p \in LoadProcs : FnReturn(p)
    \/ \E p \in LoadOthers, k \in EnvKeys : InjectEnter(p, "Inject", k)
    \/ \E p \in LoadOthers, k \in EnvKeys, c \in NoBlockCtxs :
          InjectWithContextEnter(p, "InjectWithContext", c, k)
    \/ \E p \in LoadOthers : InjectLocked(p)
    \/ \E p \in LoadOthers, k \in EnvKeys, n \in EnvArgs : SetFailuresEnter(p, k, n)
    \/ \E p \in LoadOthers : SetFailuresLocked(p)
    \/ \E p \in LoadOthers, k \in EnvKeys, n \in EnvArgs : SetNthFailureEnter(p, k, n)
    \/ \E p \in LoadOthers : SetNthFailureLocked(p)
    \/ \E p \in LoadOthers : ResetLock(p)
    \/ \E p \in LoadOthers : ResetLimits(p)
    \/ \E p \in LoadOthers : ResetPrecise(p)
    \/ \E p \in LoadOthers : ResetCounters(p)
    \/ \E p \in LoadOthers : Status(p)
    \/ \E p \in LoadOthers, op \in ListSetters : SetListLock(p, op, <<sDevelopment>>)
    \/ \E p \in LoadOthers : SetListWrite(p)
    \/ \E p \in LoadProcs \cup LoadOthers : Returned(p)

SpecNoBlock == InitLoad /\ [][NextNoBlock]_vars

\* SpecConcNth: every goroutine calls Inject concurrently on one key that
\* gets Nth-only rules, in a process started with ENVIRONMENT=development.
ConcNths == {1, NumProcs, NumProcs + 1}

NextConcNth ==
    \/ \E p \in Procs, k \in ConcKeys : InjectEnter(p, "Inject", k)
    \/ \E p \in Procs : InjectLocked(p)
    \/ \E p \in Procs, k \in ConcKeys, n \in ConcNths : SetNthFailureEnter(p, k, n)
    \/ \E p \in Procs : SetNthFailureLocked(p)
    \/ \E p \in Procs : Returned(p)

SpecConcNth == InitConc /\ [][NextConcNth]_vars

\* ------------------------------------------------------------- package sdk
\* The legacy package: its own mu, limits and counters, no precise map and no
\* production gate. A string of the environment is a sequence of tokens: a
\* key name is one token, every other character is a token of its own.
RECURSIVE Split(_, _)
Split(s, sep) ==
    IF \A i \in DOMAIN s : s[i] # sep
    THEN <<s>>
    ELSE LET i == CHOOSE j \in DOMAIN s :
                     s[j] = sep /\ \A h \in 1..(j - 1) : s[h] # sep
         IN  <<SubSeq(s, 1, i - 1)>> \o Split(SubSeq(s, i + 1, Len(s)), sep)

\* strings.SplitN(part, ":", 2): at most two pieces, cut at the first colon.
SplitN2(part) ==
    IF \A i \in DOMAIN part : part[i] # ":"
    THEN <<part>>
    ELSE LET i == CHOOSE j \in DOMAIN part :
                     part[j] = ":" /\ \A h \in 1..(j - 1) : part[h] # ":"
         IN  <<SubSeq(part, 1, i - 1), SubSeq(part, i + 1, Len(part))>>

KeyName(toks) == IF toks = << >> THEN "" ELSE toks[1]

RECURSIVE parseParts(_, _)
parseParts(parts, m) ==
    IF parts = << >> THEN m
    ELSE LET kv == SplitN2(Head(parts)) IN
           parseParts(Tail(parts),
                      IF Len(kv) = 2 /\ AtoiOk(kv[2])
                      THEN Put(m, KeyName(kv[1]), Atoi(kv[2]))
                      ELSE m)

\* parseEnv("EC2:1,STORAGE:0"): the pairs key:int of the list, the rest of
\* the parts dropped.
parseEnv(raw) == parseParts(Split(raw, ","), EmptyMap)

\* init(): limits from FI_FAILURE_COUNTS, counters empty.
SdkInitial(raw) ==
    [raw |-> raw, limits |-> parseEnv(raw), counters |-> EmptyMap,
     at |-> "idle", ret |-> "none"]

\* Mutant: sdk.Inject injects while the injections so far do not exceed the
\* limit.
SdkInjects_UpToLimit(key) ==
    /\ Has(sdk.limits, key)
    /\ sdk.limits[key] > 0
    /\ Get(sdk.counters, key) <= sdk.limits[key]

\* What sdk.Inject(key) returns: true while fewer than limit calls have been
\* injected.
SdkInjects(key) ==
    /\ Has(sdk.limits, key)
    /\ sdk.limits[key] > 0
    /\ Get(sdk.counters, key) < sdk.limits[key]

\* What sdk.Status() returns.
SdkStatusOut ==
    [k \in DOMAIN sdk.limits |-> Max(0, sdk.limits[k] - Get(sdk.counters, k))]

faultinject == <<mu, store, envs, procs, ghost, load>>

\* sdk.Inject(key): one critical section; the counter moves only when the
\* call injects.
SdkInject(key) ==
    /\ sdk.at = "idle"
    /\ sdk' = [sdk EXCEPT !.counters = IF SdkInjects(key)
                                       THEN Put(@, key, Get(@, key) + 1)
                                       ELSE @,
                          !.ret = SdkInjects(key),
                          !.at = "done"]
    /\ UNCHANGED faultinject

\* sdk.SetFailures(key, count).
SdkSetFailures(key, count) ==
    /\ sdk.at = "idle"
    /\ sdk' = [sdk EXCEPT !.limits = Put(@, key, count),
                          !.counters = Put(@, key, 0),
                          !.ret = "void",
                          !.at = "done"]
    /\ UNCHANGED faultinject

\* sdk.Reset().
SdkReset ==
    /\ sdk.at = "idle"
    /\ sdk' = [sdk EXCEPT !.limits = EmptyMap, !.counters = EmptyMap,
                          !.ret = "void", !.at = "done"]
    /\ UNCHANGED faultinject

\* sdk.Status().
SdkStatus ==
    /\ sdk.at = "idle"
    /\ sdk' = [sdk EXCEPT !.ret = SdkStatusOut, !.at = "done"]
    /\ UNCHANGED faultinject

\* The program takes what sdk returned.
SdkReturned ==
    /\ sdk.at = "done"
    /\ sdk' = [sdk EXCEPT !.ret = "none", !.at = "idle"]
    /\ UNCHANGED faultinject

\* SpecSdk: a program in a development environment makes every call twice,
\* to faultinject and then to sdk, one call after the other; the process was
\* started with any of these values of FI_FAILURE_COUNTS.
FiFailureCounts ==
    {<< >>,
     <<"k1">>,
     <<"k2", ":", "x">>,
     <<"k1", ":", "1">>,
     <<"k1", ":", "1", ",", "k2", ":", "0">>}

InitSdk ==
    /\ mu = 0
    /\ limits = EmptyMap
    /\ precise = EmptyMap
    /\ counters = EmptyMap
    /\ allowedEnvironments = DefaultAllowedEnvironments
    /\ productionEnvironments = DefaultProductionEnvironments
    /\ environ = [n \in EnvVarNames |-> IF n = "ENVIRONMENT" THEN sDevelopment ELSE sEmpty]
    /\ pc = [p \in Procs |-> "idle"]
    /\ call = [p \in Procs |-> NoCall]
    /\ ret = [p \in Procs |-> "none"]
    /\ cfg = [k \in Keys |-> NoCfg]
    /\ hist = [k \in Keys |-> << >>]
    /\ cleared = {}
    /\ prev = EmptyMap
    /\ load = [p \in Procs |-> NoLoad]
    /\ \E raw \in FiFailureCounts : sdk = SdkInitial(raw)

\* p has its answer from faultinject and asks sdk the same.
Asks(p, op) == pc[p] = "done" /\ call[p].op = op

NextSdk ==
    \/ \E p \in MainProcs, k \in Keys : sdk.at = "idle" /\ InjectEnter(p, "Inject", k)
    \/ \E p \in MainProcs : InjectLocked(p)
    \/ \E p \in MainProcs, k \in Keys, n \in Args : sdk.at = "idle" /\ SetFailuresEnter(p, k, n)
    \/ \E p \in MainProcs : SetFailuresLocked(p)
    \/ \E p \in MainProcs : sdk.at = "idle" /\ Reset(p)
    \/ \E p \in MainProcs : sdk.at = "idle" /\ Status(p)
    \/ \E p \in MainProcs : Asks(p, "Inject") /\ SdkInject(call[p].key)
    \/ \E p \in MainProcs : Asks(p, "SetFailures") /\ SdkSetFailures(call[p].key, call[p].arg)
    \/ \E p \in MainProcs : Asks(p, "Reset") /\ SdkReset
    \/ \E p \in MainProcs : Asks(p, "Status") /\ SdkStatus
    \/ \E p \in MainProcs : sdk.at = "done" /\ Returned(p)
    \/ \E p \in MainProcs : pc[p] = "idle" /\ SdkReturned

SpecSdk == InitSdk /\ [][NextSdk]_vars

\* ------------------------------------------------------------------ claims
\* Steps of a goroutine, told by what the caller can observe.
BoolOps == {"Inject", "InjectWithContext"}
SetOps  == {"SetFailures", "SetNthFailure"}

\* p starts a call of one of ops in this step.
Starts(p, ops) == pc[p] = "idle" /\ pc'[p] # "idle" /\ call'[p].op \in ops

\* p's Inject(k) (direct or through InjectWithContext) is evaluated under the
\* lock and returns in this step.
EvaluatedBy(p, k) ==
    /\ pc[p] = "lock"
    /\ pc'[p] = "done"
    /\ call[p].op \in BoolOps
    /\ call[p].key = k

\* p's Inject(k) returns in this step, from the gate or from the lock.
InjectReturns(p, k) ==
    /\ pc[p] \in {"idle", "lock"}
    /\ pc'[p] = "done"
    /\ call'[p].op = "Inject"
    /\ call'[p].key = k

\* The environment verdicts, stated on the lists.
InProductionList     == Contains(productionEnvironments, ResolvedEnv)
ProductionClassified == InProductionList \/ ~Contains(allowedEnvironments, ResolvedEnv)

\* C1: after SetFailures(k, limit) with limit > 0, the i-th Inject(k) call
\* evaluated since then (no reconfiguration of k, no Reset in between)
\* returns true exactly when i <= limit.
C1_FirstNInjectsFirstLimitCalls ==
    [][\A p \in Procs, k \in Keys :
         (EvaluatedBy(p, k) /\ cfg[k].kind = "FirstN" /\ cfg[k].val > 0)
            => (ret'[p] = (Len(hist'[k]) <= cfg[k].val))]_vars

C1_Witness ==
    /\ pc[1] = "done" /\ call[1].op = "Inject" /\ call[1].key = "k1"
    /\ cfg["k1"] = [kind |-> "FirstN", val |-> 2]
    /\ Len(hist["k1"]) = 3
    /\ hist["k1"][1].ret /\ hist["k1"][2].ret
    /\ ret[1] = FALSE

\* C2: after SetNthFailure(k, n) with n > 0, the i-th Inject(k) call
\* evaluated since then returns true exactly when i = n.
C2_NthOnlyInjectsOnlyNthCall ==
    [][\A p \in Procs, k \in Keys :
         (EvaluatedBy(p, k) /\ cfg[k].kind = "NthOnly" /\ cfg[k].val > 0)
            => (ret'[p] = (Len(hist'[k]) = cfg[k].val))]_vars

C2_Witness ==
    /\ pc[1] = "done" /\ call[1].op = "Inject" /\ call[1].key = "k2"
    /\ cfg["k2"] = [kind |-> "NthOnly", val |-> 2]
    /\ Len(hist["k2"]) = 3
    /\ ~hist["k2"][1].ret /\ hist["k2"][2].ret
    /\ ret[1] = FALSE

\* Every goroutine has called Inject(k) once since k was configured, and all
\* these calls have returned.
Joined(k) ==
    /\ \A p \in Procs : pc[p] = "done" /\ call[p].op = "Inject" /\ call[p].key = k
    /\ Len(hist[k]) = NumProcs
    /\ {hist[k][i].proc : i \in 1..Len(hist[k])} = Procs

\* C3: with N goroutines calling Inject(k) concurrently against a fresh
\* FirstN(limit), limit > 0, the calls that return true are the first limit
\* ones in lock-acquisition order, and once all N have returned exactly
\* min(N, limit) of them got true.
C3_ConcurrentFirstNExactlyMin ==
    \A k \in Keys :
        (cfg[k].kind = "FirstN" /\ cfg[k].val > 0) =>
            /\ \A i \in 1..Len(hist[k]) : hist[k][i].ret = (i <= cfg[k].val)
            /\ Joined(k) =>
                  Cardinality({p \in Procs : ret[p] = TRUE}) = Min(NumProcs, cfg[k].val)

C3_Witness ==
    /\ cfg["k1"] = [kind |-> "FirstN", val |-> 1]
    /\ Joined("k1")
    /\ Cardinality({p \in Procs : ret[p] = TRUE}) = 1

\* C4: concurrent Inject(k) calls get the attempt numbers 1, 2, ..., each
\* once, in lock-acquisition order; the counter of k is the number of calls
\* evaluated, and Status()[k] is max(0, limit - that number).
C4_NoLostOrDuplicateAttempt ==
    \A k \in Keys :
        /\ \A i \in 1..Len(hist[k]) : hist[k][i].attempt = i
        /\ Get(counters, k) = Len(hist[k])
        /\ cfg[k].kind = "FirstN" =>
              /\ Has(StatusOut, k)
              /\ StatusOut[k] = Max(0, cfg[k].val - Len(hist[k]))

C4_Witness ==
    /\ cfg["k1"] = [kind |-> "FirstN", val |-> NumProcs + 1]
    /\ Joined("k1")
    /\ counters["k1"] = NumProcs
    /\ StatusOut["k1"] = 1

\* C5: an Inject(k) call made while the resolved environment name is in the
\* production list returns false at once and leaves limits, precise and
\* counters as they were.
C5_ProductionInjectReturnsFalseStoreUntouched ==
    [][\A p \in Procs :
         (Starts(p, {"Inject"}) /\ InProductionList)
            => /\ pc'[p] = "done"
               /\ ret'[p] = FALSE
               /\ UNCHANGED <<limits, precise, counters>>]_vars

C5_Witness ==
    /\ pc[1] = "done" /\ call[1].op = "Inject" /\ call[1].key = "k1"
    /\ InProductionList
    /\ cfg["k1"] = [kind |-> "FirstN", val |-> 2]
    /\ counters["k1"] = 1
    /\ ret[1] = FALSE

\* C6: a SetFailures or SetNthFailure call made in a production-classified
\* environment returns without an error and leaves limits, precise, counters
\* and Status() as they were.
C6_ProductionSettersAreNoOps ==
    [][\A p \in Procs :
         (Starts(p, SetOps) /\ ProductionClassified)
            => /\ pc'[p] = "done"
               /\ ret'[p] = "void"
               /\ UNCHANGED <<limits, precise, counters>>
               /\ StatusOut' = StatusOut]_vars

C6_Witness ==
    /\ pc[1] = "done" /\ call[1].op = "SetNthFailure" /\ call[1].key = "k1"
    /\ call[1].arg = 1
    /\ ProductionClassified
    /\ cfg["k1"] = [kind |-> "FirstN", val |-> 2]
    /\ StatusOut = [k \in {"k1"} |-> 2]

\* What the caller of an entry point takes as an injected failure.
Signals(op, v) ==
    IF op \in BoolOps THEN v = TRUE
    ELSE v \in {"fn()", "injected failure: message", "injected failure", "responseFn"}

\* C7: a call of any decision entry point made in a production-classified
\* environment returns at once and signals no failure, whatever the context
\* carries.
C7_ProductionSuppressesEveryEntryPoint ==
    [][\A p \in Procs :
         (Starts(p, DecisionOps) /\ ProductionClassified)
            => /\ pc'[p] = "done"
               /\ ~Signals(call'[p].op, ret'[p])]_vars

\* C8: after SetFailures(k, limit) with limit <= 0 or SetNthFailure(k, n)
\* with n <= 0, which are stored like any other configuration and return no
\* error, every Inject(k) call until the next configuration returns false.
C8_NonPositiveNeverInjects ==
    [][\A p \in Procs, k \in Keys :
         /\ ((InjectReturns(p, k) \/ EvaluatedBy(p, k))
                /\ cfg[k].kind # "none" /\ cfg[k].val <= 0)
               => ret'[p] = FALSE
         /\ (pc[p] = "lock" /\ pc'[p] = "done" /\ call[p].op \in SetOps
                /\ call[p].key = k /\ call[p].arg <= 0)
               => /\ ret'[p] = "void"
                  /\ call[p].op = "SetFailures" =>
                        Has(limits', k) /\ limits'[k] = call[p].arg
                  /\ call[p].op = "SetNthFailure" =>
                        Has(precise', k) /\ precise'[k] = call[p].arg]_vars

C8_Witness ==
    /\ pc[1] = "done" /\ call[1].op = "Inject" /\ call[1].key = "k1"
    /\ cfg["k1"] = [kind |-> "NthOnly", val |-> 0]
    /\ Len(hist["k1"]) = 2
    /\ cfg["k2"] = [kind |-> "FirstN", val |-> 0 - 1]
    /\ Len(hist["k2"]) = 1
    /\ ret[1] = FALSE

\* C9: Reset() empties limits, precise and counters, so Status() is empty,
\* and a key whose rule Reset removed is absent from Status() and gets false
\* from every Inject call until the key is configured again.
C9_ResetClearsEverything ==
    [][\A p \in Procs :
         /\ Starts(p, {"Reset"})
               => /\ pc'[p] = "done"
                  /\ limits' = EmptyMap /\ precise' = EmptyMap /\ counters' = EmptyMap
                  /\ StatusOut' = EmptyMap
         /\ \A k \in cleared :
               /\ ~Has(StatusOut, k)
               /\ (InjectReturns(p, k) \/ EvaluatedBy(p, k)) => ret'[p] = FALSE]_vars

C9_Witness ==
    /\ pc[1] = "done" /\ call[1].op = "Inject" /\ call[1].key = "k1"
    /\ cleared = {"k1", "k2"}
    /\ Len(hist["k1"]) = 2
    /\ ret[1] = FALSE

\* C10: InjectWithContext on a context whose Err() is already set returns
\* false at once and leaves limits, precise, counters and Status() as they
\* were, whatever rule the key has.
C10_CancelledContextReturnsFalseStoreUntouched ==
    [][\A p \in Procs :
         (Starts(p, {"InjectWithContext"}) /\ ~call'[p].ctx.isNil /\ call'[p].ctx.err)
            => /\ pc'[p] = "done"
               /\ ret'[p] = FALSE
               /\ UNCHANGED <<limits, precise, counters>>
               /\ StatusOut' = StatusOut]_vars

C10_Witness ==
    /\ pc[1] = "done" /\ call[1].op = "InjectWithContext" /\ call[1].key = "k1"
    /\ call[1].ctx = Cancelled
    /\ ~ProductionClassified
    /\ cfg["k1"] = [kind |-> "FirstN", val |-> 2]
    /\ StatusOut = [k \in {"k1"} |-> 1]
    /\ ret[1] = FALSE

ConfiguredBy(p, op, k) ==
    /\ pc[p] = "lock"
    /\ pc'[p] = "done"
    /\ call[p].op = op
    /\ call[p].key = k

\* C12: SetFailures(k, m) on a key whose last configuration was
\* SetNthFailure(k, n) removes the Nth-only rule, stores the limit m and puts
\* the counter at zero; from then on the i-th Inject(k) returns true exactly
\* when m > 0 and i <= m, whatever n was.
C12_SetFailuresAfterSetNthIsPureFirstN ==
    [][\A p \in Procs, k \in DOMAIN prev :
         /\ (ConfiguredBy(p, "SetFailures", k) /\ cfg[k].kind = "NthOnly")
               => /\ ~Has(precise', k)
                  /\ Has(limits', k) /\ limits'[k] = call[p].arg
                  /\ Has(counters', k) /\ counters'[k] = 0
         /\ (EvaluatedBy(p, k) /\ cfg[k].kind = "FirstN" /\ prev[k].kind = "NthOnly")
               => ret'[p] = (cfg[k].val > 0 /\ Len(hist'[k]) <= cfg[k].val)]_vars

C12_Witness ==
    /\ pc[1] = "done" /\ call[1].op = "Inject" /\ call[1].key = "k1"
    /\ prev["k1"] = [kind |-> "NthOnly", val |-> 2]
    /\ cfg["k1"] = [kind |-> "FirstN", val |-> 1]
    /\ Len(hist["k1"]) = 2
    /\ hist["k1"][1].ret
    /\ ret[1] = FALSE

\* C13: whatever SetFailures, SetNthFailure, Inject, Reset, Status and
\* LoadSpec calls have run or are under way, no key is in both limits and
\* precise.
C13_AtMostOneRulePerKey ==
    \A k \in Keys : ~(Has(limits, k) /\ Has(precise, k))

C13_Witness ==
    /\ pc[1] = "done" /\ call[1].op = "LoadSpec" /\ call[1].key = "both.yaml"
    /\ ret[1] = "nil"
    /\ Has(precise, "k1") /\ ~Has(limits, "k1")
    /\ Has(limits, "k2") /\ ~Has(precise, "k2")

\* C14: the counter of a key is never negative, and a step that lowers it
\* puts it at zero and is a SetFailures or SetNthFailure for that key running
\* under the lock (so past the gate) or a Reset.
C14_CounterOnlyFallsToZeroOnReconfiguration ==
    [][\A k \in Keys :
         /\ Get(counters, k) >= 0
         /\ Get(counters', k) >= 0
         /\ Get(counters', k) < Get(counters, k)
               => /\ Get(counters', k) = 0
                  /\ \E p \in Procs : \/ ConfiguredBy(p, "SetFailures", k)
                                      \/ ConfiguredBy(p, "SetNthFailure", k)
                                      \/ Starts(p, {"Reset"})]_vars

C14_Witness ==
    /\ pc[1] = "done" /\ call[1].op = "SetNthFailure" /\ call[1].key = "k1"
    /\ Get(counters, "k1") = 0
    /\ Get(counters, "k2") = 2
    /\ Len(hist["k2"]) = 2
    /\ cfg["k2"].kind = "FirstN"

\* p's Inject(k) or InjectWithContext(ctx, k) returns in the step that
\* starts it: it was stopped before the store.
ShortCircuited(p, k) ==
    /\ Starts(p, BoolOps)
    /\ pc'[p] = "done"
    /\ call'[p].key = k

\* C15: an evaluation of k that reaches the store adds exactly one to k's
\* counter, whether k has a rule, an exhausted rule or none; an evaluation
\* stopped by the production gate, a cancelled context or a context override
\* leaves every counter as it was.
C15_CounterAdvancesOncePerStoreEvaluation ==
    [][\A p \in Procs, k \in Keys :
         /\ EvaluatedBy(p, k) => Get(counters', k) = Get(counters, k) + 1
         /\ ShortCircuited(p, k) => counters' = counters]_vars

C15_Witness ==
    /\ pc[1] = "done" /\ call[1].op = "Inject" /\ call[1].key = "k2"
    /\ cfg["k2"].kind = "none"
    /\ ~Has(limits, "k2") /\ ~Has(precise, "k2")
    /\ Get(counters, "k2") = 2
    /\ cfg["k1"] = [kind |-> "FirstN", val |-> 1]
    /\ Get(counters, "k1") = 2

\* Key j has the same entry, or none, in map m before and after the step.
SameEntry(m, n, j) ==
    /\ Has(m, j) <=> Has(n, j)
    /\ Has(m, j) => m[j] = n[j]

\* p's Inject, InjectWithContext, SetFailures or SetNthFailure on k takes a
\* step: its start or its critical section.
StepOn(p, k) ==
    \/ Starts(p, BoolOps \cup SetOps) /\ call'[p].key = k
    \/ /\ pc[p] = "lock" /\ pc'[p] = "done"
       /\ call[p].op \in BoolOps \cup SetOps
       /\ call[p].key = k

\* What a rule says of attempt i.
RuleSays(c, i) ==
    CASE c.kind = "FirstN"  -> c.val > 0 /\ i <= c.val
      [] c.kind = "NthOnly" -> c.val > 0 /\ i = c.val
      [] OTHER              -> FALSE

\* C16: a step of Inject(k), InjectWithContext(ctx, k), SetFailures(k, _) or
\* SetNthFailure(k, _) leaves the rule and the counter of every other key as
\* they were; Inject(k) returns false when the gate stops it and otherwise
\* what k's own rule says of k's own attempt number.
C16_KeysAreIndependent ==
    [][\A p \in Procs, k \in Keys :
         /\ StepOn(p, k) => \A j \in Keys \ {k} :
                               /\ SameEntry(limits, limits', j)
                               /\ SameEntry(precise, precise', j)
                               /\ SameEntry(counters, counters', j)
         /\ EvaluatedBy(p, k) => ret'[p] = RuleSays(cfg[k], Len(hist'[k]))
         /\ (Starts(p, {"Inject"}) /\ call'[p].key = k /\ pc'[p] = "done")
               => ret'[p] = FALSE]_vars

C16_Witness ==
    /\ pc[1] = "done" /\ call[1].op = "SetFailures" /\ call[1].key = "k1"
    /\ cfg["k1"].kind = "FirstN"
    /\ cfg["k2"] = [kind |-> "NthOnly", val |-> 2]
    /\ Has(precise, "k2") /\ precise["k2"] = 2
    /\ Get(counters, "k2") = 2
    /\ Len(hist["k2"]) = 2
    /\ hist["k2"][2].ret

\* C17: the result of Status() has no entry for a key whose last
\* configuration is SetNthFailure, whatever its n and the number of
\* evaluations since, and whatever SetFailures came before it.
C17_StatusHidesNthOnlyRules ==
    [][\A p \in Procs, k \in Keys :
         (Starts(p, {"Status"}) /\ cfg[k].kind = "NthOnly") => ~Has(ret'[p], k)]_vars

C17_Witness ==
    /\ pc[1] = "done" /\ call[1].op = "Status"
    /\ prev["k1"] = [kind |-> "FirstN", val |-> 2]
    /\ cfg["k1"] = [kind |-> "NthOnly", val |-> 1]
    /\ Len(hist["k1"]) = 2
    /\ ~Has(ret[1], "k1")

\* C18: for a key whose last configuration is SetFailures(k, L), Status()
\* has an entry and it is max(0, L - i), i the number of evaluations of k that
\* reached the store since: L at first, one less per evaluation, 0 from the
\* L-th on, and 0 for a negative L.
C18_StatusReportsRemainingClampedAtZero ==
    [][\A p \in Procs, k \in Keys :
         (Starts(p, {"Status"}) /\ cfg[k].kind = "FirstN")
            => /\ Has(ret'[p], k)
               /\ ret'[p][k] = Max(0, cfg[k].val - Len(hist[k]))]_vars

C18_Witness ==
    /\ pc[1] = "done" /\ call[1].op = "Status"
    /\ cfg["k1"] = [kind |-> "FirstN", val |-> 1]
    /\ Len(hist["k1"]) = 2
    /\ Has(ret[1], "k1") /\ ret[1]["k1"] = 0
    /\ cfg["k2"] = [kind |-> "FirstN", val |-> 2]
    /\ Len(hist["k2"]) = 1
    /\ Has(ret[1], "k2") /\ ret[1]["k2"] = 1

\* The first-N rule last configured for k has nothing remaining.
Exhausted(k) == cfg[k].kind = "FirstN" /\ Len(hist[k]) >= cfg[k].val

\* C19, as stated: the result of Status() has no entry for a key whose first-N
\* rule is exhausted, nor for a key without a rule.
C19_StatusOmitsExhaustedAndAbsent ==
    [][\A p \in Procs, k \in Keys :
         (Starts(p, {"Status"}) /\ (Exhausted(k) \/ cfg[k].kind = "none"))
            => ~Has(ret'[p], k)]_vars

\* C19, amended: the result of Status() has no entry for a key without a
\* first-N rule (no rule, or an Nth-only rule), and has the entry 0 for a key
\* whose first-N rule is exhausted.
C19_StatusOmitsOnlyKeysWithoutFirstN ==
    [][\A p \in Procs, k \in Keys :
         Starts(p, {"Status"})
            => /\ cfg[k].kind # "FirstN" => ~Has(ret'[p], k)
               /\ Exhausted(k) => Has(ret'[p], k) /\ ret'[p][k] = 0]_vars

C19_Witness ==
    /\ pc[1] = "done" /\ call[1].op = "Status"
    /\ cfg["k1"] = [kind |-> "FirstN", val |-> 0 - 1]
    /\ Has(ret[1], "k1") /\ ret[1]["k1"] = 0
    /\ cfg["k2"].kind = "none"
    /\ Len(hist["k2"]) = 1
    /\ ~Has(ret[1], "k2")

FirstNonEmpty ==
    IF environ["ENVIRONMENT"] # sEmpty THEN environ["ENVIRONMENT"]
    ELSE IF environ["ENV"] # sEmpty THEN environ["ENV"]
    ELSE environ["GO_ENV"]

\* C21: a gated call goes on to the lock exactly when the lower-cased value of
\* the first non-empty variable among ENVIRONMENT, ENV, GO_ENV is in the
\* allowed list and not in the production list: the variables after that one
\* and the letter case of the value make no difference.
C21_FirstNonEmptyVariableLowercased ==
    [][\A p \in Procs :
         Starts(p, {"Inject"} \cup SetOps)
            => (pc'[p] = "lock"
                  <=> /\ Contains(allowedEnvironments, ToLower(FirstNonEmpty))
                      /\ ~Contains(productionEnvironments, ToLower(FirstNonEmpty)))]_vars

C21_Witness ==
    /\ pc[1] = "done" /\ call[1].op = "Inject" /\ call[1].key = "k1"
    /\ environ["ENVIRONMENT"] = sQa
    /\ environ["ENV"] = sDevMixed
    /\ allowedEnvironments = DefaultAllowedEnvironments
    /\ productionEnvironments = DefaultProductionEnvironments
    /\ cfg["k1"] = [kind |-> "FirstN", val |-> 1]
    /\ hist["k1"] = << >>
    /\ ret[1] = FALSE

\* C22: once SetAllowedEnvironments / SetProductionEnvironments has
\* returned, its list is exactly the one it was given and the other list is
\* as it was; and a gated call is judged on the lists and the variables as
\* they are when it begins, whatever they were for the calls before it.
C22_VerdictFollowsListsAndVariablesAtOnce ==
    [][\A p \in Procs :
         /\ Starts(p, {"SetAllowedEnvironments"})
               => /\ pc'[p] = "done"
                  /\ allowedEnvironments' = call'[p].arg
                  /\ productionEnvironments' = productionEnvironments
         /\ Starts(p, {"SetProductionEnvironments"})
               => /\ pc'[p] = "done"
                  /\ productionEnvironments' = call'[p].arg
                  /\ allowedEnvironments' = allowedEnvironments
         /\ Starts(p, {"Inject"} \cup SetOps)
               => (pc'[p] = "done"
                     <=> \/ Contains(productionEnvironments, ResolvedEnv)
                         \/ ~Contains(allowedEnvironments, ResolvedEnv))]_vars

C22_Witness ==
    /\ pc[1] = "done" /\ call[1].op = "Inject" /\ call[1].key = "k1"
    /\ environ["ENVIRONMENT"] = sProdMixed
    /\ allowedEnvironments = <<sQa, sProd>>
    /\ productionEnvironments = << >>
    /\ cfg["k1"] = [kind |-> "FirstN", val |-> 1]
    /\ Len(hist["k1"]) = 1
    /\ ret[1] = TRUE

\* C23: in a production-classified environment Reset() still empties
\* limits, precise and counters, and Status() still reports every key last
\* configured by SetFailures with what remains of its limit.
C23_ResetAndStatusNotGated ==
    [][\A p \in Procs :
         /\ (Starts(p, {"Reset"}) /\ ProductionClassified)
               => /\ pc'[p] = "done"
                  /\ limits' = EmptyMap /\ precise' = EmptyMap /\ counters' = EmptyMap
         /\ (Starts(p, {"Status"}) /\ ProductionClassified)
               => /\ pc'[p] = "done"
                  /\ DOMAIN ret'[p] = {k \in Keys : cfg[k].kind = "FirstN"}
                  /\ \A k \in DOMAIN ret'[p] :
                        ret'[p][k] = Max(0, cfg[k].val - Len(hist[k]))
                  /\ UNCHANGED <<limits, precise, counters>>]_vars

C23_Witness ==
    /\ pc[1] = "done" /\ call[1].op = "Status"
    /\ ProductionClassified
    /\ environ["ENVIRONMENT"] = sProdMixed
    /\ cfg["k1"] = [kind |-> "FirstN", val |-> 2]
    /\ Len(hist["k1"]) = 1
    /\ cfg["k2"].kind = "NthOnly"
    /\ ret[1] = Put(EmptyMap, "k1", 1)

\* p's LoadSpec returns nil in this step.
LoadSpecSucceeds(p) ==
    /\ pc[p] = "load"
    /\ pc'[p] = "done"
    /\ call[p].op = "LoadSpec"

\* C24: when a LoadSpec that ran alone in a non-production environment
\* returns nil, precise holds exactly the precise-failures section, limits
\* exactly the failures section (less the keys that precise-failures names
\* too), and counters a zero for every key of the document and nothing else:
\* nothing that was in the store before the call is left.
C24_LoadSpecReplacesTheStore ==
    [][\A p \in Procs :
         (LoadSpecSucceeds(p) /\ ~ProductionClassified)
            => LET doc == Unmarshal(Files[call[p].key]) IN
                 /\ ret'[p] = "nil"
                 /\ precise' = doc.precise
                 /\ limits' = [k \in DOMAIN doc.failures \ DOMAIN doc.precise |->
                                  doc.failures[k]]
                 /\ counters' = [k \in DOMAIN doc.failures \cup DOMAIN doc.precise |-> 0]]_vars

C24_Witness ==
    /\ pc[1] = "done" /\ call[1].op = "LoadSpec" /\ call[1].key = "first.yaml"
    /\ ret[1] = "nil"
    /\ ~ProductionClassified
    /\ cleared = {"k2"}
    /\ limits = Put(EmptyMap, "k1", 1)
    /\ precise = EmptyMap
    /\ counters = Put(EmptyMap, "k1", 0)

\* The paths LoadSpec cannot load: no such file, a document that is not
\* YAML, a value that is not an integer.
FailingPaths == {"missing.yaml", "malformed.yaml", "badvalue.yaml"}

\* C25: LoadSpec on a file that is missing, malformed or holds a non-integer
\* value returns an error in the step that starts it, and limits, precise and
\* counters are what they were before the call.
C25_FailedLoadSpecChangesNothing ==
    [][\A p \in Procs :
         (Starts(p, {"LoadSpec"}) /\ call'[p].key \in FailingPaths)
            => /\ pc'[p] = "done"
               /\ ret'[p] = "error"
               /\ UNCHANGED <<limits, precise, counters>>]_vars

C25_Witness ==
    /\ pc[1] = "done" /\ call[1].op = "LoadSpec" /\ call[1].key = "badvalue.yaml"
    /\ ret[1] = "error"
    /\ limits = Put(EmptyMap, "k2", MaxArg)
    /\ precise = Put(EmptyMap, "k1", MaxArg)
    /\ Get(counters, "k1") = 1
    /\ Get(counters, "k2") = 2

\* The middleware and the decorators, what each gives for a failure and what
\* it runs otherwise.
GuardOps == {"HTTPMiddlewareWithResponse", "WithFaultInjection",
             "WithFaultInjectionContext"}
FailureOf(op) == IF op = "HTTPMiddlewareWithResponse" THEN "responseFn"
                 ELSE "injected failure"
WrappedOf(op) == IF op = "HTTPMiddlewareWithResponse" THEN "next.ServeHTTP"
                 ELSE "fn(input)"

\* C26: a request through the middleware, or a call of a decorator, takes at
\* most one evaluation of its key: the step that starts it leaves the counters
\* alone, its step under the lock adds one to the key's counter and records
\* one evaluation, and it ends with the failure representation when that
\* evaluation (or the context override) said true and with the wrapped
\* handler or function otherwise, one of the two and nothing else.
C26_GuardEvaluatesOnceOneOutcome ==
    [][\A p \in Procs :
         /\ Starts(p, GuardOps)
               => /\ counters' = counters
                  /\ hist' = hist
                  /\ pc'[p] = "done"
                       => ret'[p] = IF /\ call'[p].op = "WithFaultInjectionContext"
                                       /\ ContextDecision(call'[p].ctx, call'[p].key) = "override"
                                       /\ call'[p].ctx.vals[Namespaced(call'[p].key)]
                                    THEN FailureOf(call'[p].op)
                                    ELSE WrappedOf(call'[p].op)
         /\ (pc[p] = "lock" /\ pc'[p] = "done" /\ call[p].op \in GuardOps)
               => LET k == call[p].key IN
                    /\ Get(counters', k) = Get(counters, k) + 1
                    /\ Len(hist'[k]) = Len(hist[k]) + 1
                    /\ ret'[p] = IF RuleSays(cfg[k], Len(hist'[k]))
                                 THEN FailureOf(call[p].op)
                                 ELSE WrappedOf(call[p].op)]_vars

C26_Witness ==
    /\ pc[1] = "done" /\ call[1].op = "HTTPMiddlewareWithResponse"
    /\ call[1].key = "k1"
    /\ cfg["k1"] = [kind |-> "FirstN", val |-> 1]
    /\ Len(hist["k1"]) = 1
    /\ Get(counters, "k1") = 1
    /\ ret[1] = "responseFn"

\* The count parameters of the requests that are missing or are no number.
BadCounts == {<< >>, <<"1", "x">>}

\* p's request is for path with a count of counts.
Requests(c, path, counts) ==
    /\ c.op = "ServeHTTP"
    /\ c.arg.path = path
    /\ c.arg.count \in counts

\* C27: a /set request whose count is missing or does not parse is answered
\* 200 OK and does what SetFailures(key, 0) does: nothing when the gate finds
\* production, else limit 0, no Nth-only rule and counter 0 for the key; and
\* while that configuration stands every Inject(key) returns false.
C27_UnparsableCountIsZero ==
    [][\A p \in Procs :
         /\ (pc[p] = "idle" /\ pc'[p] # "idle" /\ Requests(call'[p], "/set", BadCounts))
               => IF ProductionClassified
                  THEN /\ pc'[p] = "done"
                       /\ ret'[p] = Response(200, "OK")
                       /\ UNCHANGED <<limits, precise, counters>>
                  ELSE /\ pc'[p] = "lock"
                       /\ UNCHANGED <<limits, precise, counters>>
         /\ (pc[p] = "lock" /\ pc'[p] = "done" /\ Requests(call[p], "/set", BadCounts))
               => /\ ret'[p] = Response(200, "OK")
                  /\ Has(limits', call[p].key) /\ limits'[call[p].key] = 0
                  /\ ~Has(precise', call[p].key)
                  /\ Has(counters', call[p].key) /\ counters'[call[p].key] = 0
         /\ \A k \in Keys :
               (EvaluatedBy(p, k) /\ cfg[k] = [kind |-> "FirstN", val |-> 0])
                  => ret'[p] = FALSE]_vars

C27_Witness ==
    /\ pc[1] = "done" /\ call[1].op = "Inject" /\ call[1].key = "k1"
    /\ cfg["k1"] = [kind |-> "FirstN", val |-> 0]
    /\ Has(limits, "k1") /\ limits["k1"] = 0
    /\ Len(hist["k1"]) = 2
    /\ ~hist["k1"][1].ret
    /\ ret[1] = FALSE

\* C28: a request with a method other than POST on /set, /reset or /status
\* changes nothing in the store, at any of its steps, and its answer is not
\* the one an unknown path gets.
C28_UnsupportedMethodRejected ==
    [][\A p \in Procs :
         (/\ pc'[p] # "idle"
          /\ call'[p].op = "ServeHTTP"
          /\ call'[p].arg.method # "POST"
          /\ call'[p].arg.path \in {"/set", "/reset", "/status"})
            => /\ UNCHANGED <<limits, precise, counters>>
               /\ pc'[p] = "done" => ret'[p] # Response(404, "404 page not found")]_vars

\* C29: there is no state in which one goroutine is inside
\* SetAllowedEnvironments or SetProductionEnvironments, holding mu and about
\* to assign the list, while another is in the gate check of Inject,
\* SetFailures or SetNthFailure about to read the lists without holding mu.
C29_ListReadsAndWritesSerialized ==
    \A p \in Procs, q \in Procs :
       ~(/\ p # q
         /\ pc[p] = "write"
         /\ mu = p
         /\ pc[q] = "gate"
         /\ mu # q)

\* A Reset has cleared some of limits, precise and counters and not yet all.
PartlyCleared == \E q \in Procs : pc[q] \in {"reset.precise", "reset.counters"}

\* p reads the store in this step: the critical section of an Inject, or a
\* Status.
ReadsStore(p) ==
    \/ pc[p] = "lock" /\ pc'[p] = "done" /\ call[p].op \in BoolOps
    \/ Starts(p, {"Status"})

\* C30: no Inject and no Status reads the store while a Reset has cleared
\* some of limits, precise and counters and not the rest; what they read is
\* the store as it was when the Reset took the lock or the empty store it
\* leaves.
C30_ResetIsAtomic ==
    [][\A p \in Procs : ReadsStore(p) => ~PartlyCleared]_vars

C30_Witness ==
    /\ pc[1] = "reset.precise"
    /\ limits = EmptyMap
    /\ Has(precise, "k2")
    /\ cfg["k1"].kind = "FirstN"
    /\ Get(counters, "k1") = 1
    /\ pc[NumProcs] = "lock" /\ call[NumProcs].op = "Inject"
    /\ call[NumProcs].key = "k1"

\* C31: SetNthFailure(k, n) on a key whose last configuration was
\* SetFailures(k, m) removes the first-N rule, stores n as the Nth-only rule
\* and puts the counter at zero, however many Inject(k) calls came before;
\* from then on the i-th Inject(k) returns true exactly when n > 0 and i = n,
\* whatever m was.
C31_SetNthAfterSetFailuresIsPureNthOnly ==
    [][\A p \in Procs, k \in DOMAIN prev :
         /\ (ConfiguredBy(p, "SetNthFailure", k) /\ cfg[k].kind = "FirstN")
               => /\ ~Has(limits', k)
                  /\ Has(precise', k) /\ precise'[k] = call[p].arg
                  /\ Has(counters', k) /\ counters'[k] = 0
         /\ (EvaluatedBy(p, k) /\ cfg[k].kind = "NthOnly" /\ prev[k].kind = "FirstN")
               => ret'[p] = (cfg[k].val > 0 /\ Len(hist'[k]) = cfg[k].val)]_vars

C31_Witness ==
    /\ pc[1] = "done" /\ call[1].op = "Inject" /\ call[1].key = "k1"
    /\ prev["k1"] = [kind |-> "FirstN", val |-> 2]
    /\ cfg["k1"] = [kind |-> "NthOnly", val |-> 1]
    /\ Len(hist["k1"]) = 2
    /\ hist["k1"][1].ret
    /\ ret[1] = FALSE

\* C32: InjectWithContext on a context whose Err() is set and which holds
\* the boolean true under "faultinject:"+key returns false: the cancellation
\* is looked at before the override.
C32_CancellationBeforeOverride ==
    [][\A p \in Procs :
         (/\ Starts(p, {"InjectWithContext"})
          /\ ~call'[p].ctx.isNil
          /\ call'[p].ctx.err
          /\ Has(call'[p].ctx.vals, Namespaced(call'[p].key))
          /\ call'[p].ctx.vals[Namespaced(call'[p].key)] = TRUE)
            => /\ pc'[p] = "done"
               /\ ret'[p] = FALSE]_vars

C32_Witness ==
    /\ pc[1] = "done" /\ call[1].op = "InjectWithContext" /\ call[1].key = "k1"
    /\ call[1].ctx = WithValue(Cancelled, Namespaced("k1"), TRUE)
    /\ ~ProductionClassified
    /\ cfg["k1"] = [kind |-> "FirstN", val |-> 2]
    /\ hist["k1"] = << >>
    /\ ret[1] = FALSE

\* InjectWithContext(ctx, key) gets past its context checks: ctx is nil, or
\* it is not cancelled and holds no boolean under "faultinject:"+key.
Delegates(ctx, key) ==
    \/ ctx.isNil
    \/ /\ ~ctx.err
       /\ ~(Has(ctx.vals, Namespaced(key)) /\ ctx.vals[Namespaced(key)] \in BOOLEAN)

\* C33: on a nil context, or one that is not cancelled and holds no boolean
\* under "faultinject:"+key (a value of another type there, or an override
\* for another key, changes nothing), InjectWithContext(ctx, key) does what
\* Inject(key) does: stopped with false by the production gate, the store
\* untouched, and otherwise one more attempt counted for key and the verdict
\* of key's rule on that attempt returned.
C33_DelegatingContextIsInject ==
    [][\A p \in Procs, k \in Keys :
         /\ (/\ Starts(p, {"InjectWithContext"})
             /\ call'[p].key = k
             /\ Delegates(call'[p].ctx, k))
               => /\ UNCHANGED <<limits, precise, counters>>
                  /\ IF ProductionClassified
                     THEN pc'[p] = "done" /\ ret'[p] = FALSE
                     ELSE pc'[p] = "lock"
         /\ (EvaluatedBy(p, k) /\ call[p].op = "InjectWithContext")
               => /\ Delegates(call[p].ctx, k)
                  /\ UNCHANGED <<limits, precise>>
                  /\ counters' = Put(counters, k, Get(counters, k) + 1)
                  /\ ret'[p] = RuleSays(cfg[k], Get(counters, k) + 1)]_vars

C33_Witness ==
    /\ pc[1] = "done" /\ call[1].op = "InjectWithContext" /\ call[1].key = "k1"
    /\ call[1].ctx = WithNonBool(Background, Namespaced("k1"))
    /\ cfg["k1"] = [kind |-> "NthOnly", val |-> 2]
    /\ Get(counters, "k1") = 2
    /\ ret[1] = TRUE

\* The convenience adapters, what each returns when the evaluation said true
\* (the result of the one invocation of fn, or the error it builds), and the
\* boolean a context hands back without an evaluation.
ConvenienceOps == {"InjectWithFn", "InjectWithFnContext", "InjectWithError",
                   "InjectWithErrorf", "InjectWithContextError"}
SignalOf(op) == IF op \in {"InjectWithFn", "InjectWithFnContext"}
                THEN "fn()"
                ELSE "injected failure: message"
Overridden(c) ==
    /\ c.op \in CtxOps
    /\ ~Delegates(c.ctx, c.key)
    /\ ~c.ctx.err
    /\ c.ctx.vals[Namespaced(c.key)]

\* C34: a call of InjectWithFn, InjectWithFnContext, InjectWithError,
\* InjectWithErrorf or InjectWithContextError changes no rule and takes at
\* most one evaluation of its key: the step that starts it leaves the store
\* alone, its step under the lock adds one to the key's counter, and it
\* returns fn's result (fn invoked once) or a non-nil error exactly when that
\* evaluation, or the context override, said true, and nil (fn not invoked)
\* otherwise.
C34_ConvenienceAdaptersEvaluateOnce ==
    [][\A p \in Procs :
         /\ Starts(p, ConvenienceOps)
               => /\ UNCHANGED <<limits, precise, counters>>
                  /\ hist' = hist
                  /\ pc'[p] = "done"
                       => ret'[p] = IF Overridden(call'[p])
                                    THEN SignalOf(call'[p].op)
                                    ELSE "nil"
         /\ (pc[p] = "lock" /\ pc'[p] = "done" /\ call[p].op \in ConvenienceOps)
               => LET k == call[p].key IN
                    /\ UNCHANGED <<limits, precise>>
                    /\ counters' = Put(counters, k, Get(counters, k) + 1)
                    /\ Len(hist'[k]) = Len(hist[k]) + 1
                    /\ ret'[p] = IF RuleSays(cfg[k], Len(hist'[k]))
                                 THEN SignalOf(call[p].op)
                                 ELSE "nil"]_vars

C34_Witness ==
    /\ pc[1] = "done" /\ call[1].op = "InjectWithFn" /\ call[1].key = "k1"
    /\ cfg["k1"] = [kind |-> "NthOnly", val |-> 2]
    /\ Len(hist["k1"]) = 2
    /\ ~hist["k1"][1].ret
    /\ Get(counters, "k1") = 2
    /\ ret[1] = "fn()"

\* p is in a callback: fn, responseFn or the next handler is running or is
\* in a call of its own.
InCallback(p) == pc[p] \in {"fn", "fn.lock", "fn.done"}

\* p has started a call that has not returned yet.
Started(p) == pc[p] \notin {"idle", "done"}

\* How far a call has come on its way to its return.
Rank(at) ==
    CASE at \in {"lock", "write", "reset.limits"} -> 1
      [] at \in {"fn", "reset.precise"}            -> 2
      [] at \in {"fn.lock", "reset.counters"}      -> 3
      [] at = "fn.done"                            -> 4
      [] at = "done"                               -> 5
      [] OTHER                                     -> 0

\* C35: under any interleaving of the calls of the core no call blocks for
\* ever: a call that has started can take its next step, or waits for mu
\* while the goroutine that holds mu can take its next step; every step of
\* a call takes it nearer to its return, which comes after five steps at
\* most; mu is held only by a call that has started and not returned; and a
\* callback of InjectWithFn or of the middleware runs while its goroutine
\* does not hold mu, so the calls it makes get the lock like any other.
C35_EveryCallReturnsLockReleased ==
    /\ [](\A p \in Procs :
            Started(p) => \/ ENABLED Continue(p)
                          \/ mu \in Procs \ {p} /\ ENABLED Continue(mu))
    /\ [](mu # 0 => mu \in Procs /\ Started(mu) /\ ~InCallback(mu))
    /\ [][\A p \in Procs :
            (Started(p) /\ pc'[p] # pc[p]) => Rank(pc'[p]) > Rank(pc[p])]_vars

C35_Witness ==
    /\ pc[1] = "done" /\ call[1].op = "InjectWithFn" /\ ret[1] = "fn()"
    /\ cfg["k1"] = [kind |-> "FirstN", val |-> 1]
    /\ Len(hist["k1"]) = 2
    /\ hist["k1"][1].proc = 1 /\ hist["k1"][1].ret
    /\ hist["k1"][2].proc = 1 /\ ~hist["k1"][2].ret
    /\ pc[NumProcs] = "lock" /\ call[NumProcs].op = "Inject"
    /\ mu = 0

\* C36: a step in which an Inject, SetFailures or SetNthFailure call returns
\* while the environment is classified as production leaves limits, precise
\* and counters as they were, and the Inject returns false, also when the
\* call had passed its gate before the environment became production.
C36_NoEffectWhileProduction ==
    [][\A p \in Procs :
         (/\ pc[p] \in {"idle", "lock"}
          /\ pc'[p] = "done"
          /\ call'[p].op \in {"Inject"} \cup SetOps
          /\ ProductionClassified)
            => /\ UNCHANGED <<limits, precise, counters>>
               /\ call'[p].op = "Inject" => ret'[p] = FALSE]_vars

\* The evaluations of k since its last configuration that returned true.
Injected(k) == {i \in 1..Len(hist[k]) : hist[k][i].ret}

\* C37: with goroutines calling Inject(k) concurrently against a fresh
\* NthOnly(n), n > 0, at most one call returns true within the configuration:
\* the n-th in lock-acquisition order; none has while fewer than n calls have
\* been evaluated, exactly one once n have.
C37_ConcurrentNthOnlyExactlyOne ==
    \A k \in Keys :
        (cfg[k].kind = "NthOnly" /\ cfg[k].val > 0) =>
            /\ Cardinality(Injected(k)) <= 1
            /\ Injected(k) = {i \in 1..Len(hist[k]) : i = cfg[k].val}
            /\ Len(hist[k]) >= cfg[k].val <=> Cardinality(Injected(k)) = 1
            /\ Joined(k) =>
                  Cardinality({p \in Procs : ret[p] = TRUE}) =
                     IF cfg[k].val <= NumProcs THEN 1 ELSE 0

C37_Witness ==
    /\ cfg["k1"] = [kind |-> "NthOnly", val |-> NumProcs]
    /\ Joined("k1")
    /\ Cardinality({p \in Procs : ret[p] = TRUE}) = 1
    /\ ret[hist["k1"][NumProcs].proc] = TRUE

\* p's LoadSpec has returned nil and the environment is not classified as
\* production.
Loaded(p) ==
    /\ pc[p] = "done"
    /\ call[p].op = "LoadSpec"
    /\ ret[p] = "nil"
    /\ ~ProductionClassified

\* C38: when a LoadSpec that ran alone in a non-production environment has
\* returned nil, a key that the document names in both sections has the
\* Nth-only rule of the precise-failures section and no first-N rule, its
\* counter is zero, no key is in both limits and precise, and Status() has
\* no entry for the key.
C38_KeyInBothSectionsEndsNthOnly ==
    \A p \in Procs :
        Loaded(p) =>
            LET doc == Unmarshal(Files[call[p].key]) IN
              /\ \A k \in DOMAIN doc.failures \cap DOMAIN doc.precise :
                    /\ Has(precise, k) /\ precise[k] = doc.precise[k]
                    /\ ~Has(limits, k)
                    /\ Get(counters, k) = 0
                    /\ cfg[k] = [kind |-> "NthOnly", val |-> doc.precise[k]]
                    /\ ~Has(StatusOut, k)
              /\ DOMAIN limits \cap DOMAIN precise = {}

C38_Witness ==
    /\ Loaded(1)
    /\ call[1].key = "both.yaml"
    /\ precise = Put(EmptyMap, "k1", MaxArg)
    /\ limits = Put(EmptyMap, "k2", MaxArg)
    /\ StatusOut = Put(EmptyMap, "k2", MaxArg)


\* limits, precise and counters are empty in the next state, and so is what
\* Status() would return there.
StoreEmptied ==
    /\ limits' = EmptyMap
    /\ precise' = EmptyMap
    /\ counters' = EmptyMap
    /\ StatusOut' = EmptyMap

\* C39: in an environment classified as production, the step that starts
\* LoadSpec on a loadable document empties limits, precise and counters, no
\* step of the load puts anything into them, and the step in which LoadSpec
\* returns gives nil with the store and Status() empty.
C39_LoadSpecInProductionEmptiesTheStore ==
    [][\A p \in Procs :
         /\ (/\ Starts(p, {"LoadSpec"})
             /\ call'[p].key \notin FailingPaths
             /\ ProductionClassified)
               => /\ pc'[p] = "load"
                  /\ StoreEmptied
         /\ (pc[p] = "load" /\ ProductionClassified)
               => /\ pc'[p] \in {"load", "done"}
                  /\ UNCHANGED <<limits, precise, counters>>
         /\ (LoadSpecSucceeds(p) /\ ProductionClassified)
               => /\ ret'[p] = "nil"
                  /\ StoreEmptied]_vars

C39_Witness ==
    /\ pc[1] = "done" /\ call[1].op = "LoadSpec" /\ call[1].key = "both.yaml"
    /\ ret[1] = "nil"
    /\ ProductionClassified
    /\ cleared = {"k1", "k2"}
    /\ limits = EmptyMap /\ precise = EmptyMap /\ counters = EmptyMap
    /\ StatusOut = EmptyMap


\* p has made the same call to faultinject and to sdk and holds both answers.
AskedBoth(p) ==
    /\ pc[p] = "done"
    /\ sdk.at = "done"
    /\ call[p].op \in {"Inject", "Status"}

\* The number of evaluations of k since its configuration that injected.
InjectedSoFar(k) == Cardinality({i \in DOMAIN hist[k] : hist[k][i].ret})

\* C40 as stated: in a development environment, whatever the process was
\* started with, whenever the program has made the same call to
\* faultinject and to sdk, Inject has returned the same boolean from both and
\* Status the same mapping.
C40_SdkEquivalentToFaultinject ==
    \A p \in Procs : AskedBoth(p) => sdk.ret = ret[p]

\* C40, amended: when FI_FAILURE_COUNTS gave init no key:int pair, the same
\* sequence of SetFailures, Inject, Reset and Status calls gets the same
\* booleans from Inject and the same mappings from Status in both packages,
\* both hold the same limits, and for a key with a limit the counter of sdk
\* is the number of injected attempts, never above a positive limit, while
\* the counter of faultinject is the number of attempts.
C40_SdkEquivalentWhenNothingSeeded ==
    parseEnv(sdk.raw) = EmptyMap =>
        /\ \A p \in Procs : AskedBoth(p) => sdk.ret = ret[p]
        /\ ((\A p \in Procs : pc[p] = "idle") /\ sdk.at = "idle") =>
                 /\ sdk.limits = limits
                 /\ SdkStatusOut = StatusOut
                 /\ \A k \in DOMAIN limits :
                       /\ Get(counters, k) = Len(hist[k])
                       /\ Get(sdk.counters, k) = InjectedSoFar(k)
                       /\ limits[k] > 0 => Get(sdk.counters, k) <= limits[k]

C40_Witness ==
    /\ parseEnv(sdk.raw) = EmptyMap
    /\ sdk.raw # << >>
    /\ AskedBoth(1)
    /\ call[1].op = "Inject" /\ call[1].key = "k1"
    /\ ret[1] = FALSE /\ sdk.ret = FALSE
    /\ Has(limits, "k1") /\ limits["k1"] = 2
    /\ Get(counters, "k1") = 3
    /\ Get(sdk.counters, "k1") = 2

====
